---- MODULE Spec2Model ----
(***************************************************************************)
(* Model of the page-discovery engine of VisualWalkthroughGenerator:      *)
(* src/src/crawler.ts (second revision in the file, lines 286-700) and the *)
(* form handler it calls, src/unnamed/part_001 (lines 76-409).             *)
(*                                                                         *)
(* Strings are sequences of tokens.  A token stands for a run of           *)
(* characters that contains neither "/" nor "#" ("https:", "a.test", "x")  *)
(* or for the single character "/" or "#".  Concatenation, startsWith,     *)
(* endsWith, slice and includes are the sequence operations on tokens.     *)
(***************************************************************************)
EXTENDS Integers, Sequences, FiniteSets, TLC

VARIABLES
    startUrl,     \* crawlWebsite parameter
    options,      \* crawlWebsite parameter (CrawlOptions)
    site,         \* the web site: location -> raw href attributes of its anchors
    pc,           \* position inside crawlWebsite
    visited,      \* const visited = new Set<string>()
    toVisit,      \* const toVisit: Array<{url, depth}>
    discovered,   \* const discovered: string[]
    cur,          \* the item destructured by toVisit.shift()
    navAttempt,   \* number of page.goto attempts made for cur
    pageUrl,      \* location of the browser page
    result,       \* the returned CrawlResult
    depths,       \* history: depth of each entry of discovered
    navLog,       \* history: items the browser was navigated for
    log,          \* last console message of the loop
    faults,       \* history: number of browser operations that failed
    formUrls,     \* history: page locations a form submission led to
    nIn,          \* input of the normalizeUrl harness
    nOut,         \* outputs of the normalizeUrl harness
    gen,          \* generateValueForField: the field metadata and the value
    form,         \* autoFillForm: the page, the arguments and the progress
    cap           \* main and captureScreenshots: arguments, config and progress

vars == <<startUrl, options, site, pc, visited, toVisit, discovered, cur,
          navAttempt, pageUrl, result, depths, navLog, log, faults, formUrls,
          nIn, nOut, gen, form, cap>>

crawlVars == <<startUrl, options, site, pc, visited, toVisit, discovered, cur,
               navAttempt, pageUrl, result, depths, navLog, log, faults, formUrls>>

\* the variables of the function harnesses, left alone by crawlWebsite
harness == <<nIn, nOut, gen, form, cap>>

-----------------------------------------------------------------------------
(* Bounds of the model *)

MaxSlashes == 4
MaxDepthBound == 2
MaxPagesBound == 4
MaxFaults == 2

-----------------------------------------------------------------------------
(* Strings *)

Schemes == {"https:"}
Hosts == {"a.test", "other.test"}

StartsWith(s, p) ==
    /\ Len(s) >= Len(p)
    /\ SubSeq(s, 1, Len(p)) = p

EndsWith(s, p) ==
    /\ Len(s) >= Len(p)
    /\ SubSeq(s, Len(s) - Len(p) + 1, Len(s)) = p

\* String.prototype.includes
Includes(s, p) ==
    \E i \in 0..(Len(s) - Len(p)) : SubSeq(s, i + 1, i + Len(p)) = p

\* index of the first "#" of s, 0 when there is none
HashPos(s) ==
    IF \E i \in 1..Len(s) : s[i] = "#"
    THEN CHOOSE i \in 1..Len(s) : s[i] = "#" /\ \A j \in 1..(i - 1) : s[j] # "#"
    ELSE 0

\* index of the last "/" of s, 0 when there is none
LastSlash(s) ==
    IF \E i \in 1..Len(s) : s[i] = "/"
    THEN CHOOSE i \in 1..Len(s) : s[i] = "/" /\ \A j \in (i + 1)..Len(s) : s[j] # "/"
    ELSE 0

RECURSIVE Slashes(_)
Slashes(n) == IF n = 0 THEN <<>> ELSE <<"/">> \o Slashes(n - 1)

-----------------------------------------------------------------------------
(* The URL class (WHATWG URL as used through `new URL(...)`) *)

BadUrl == [ok |-> FALSE]

\* new URL(s): ok = FALSE stands for the TypeError it throws
ParseUrl(s) ==
    IF /\ Len(s) >= 4
       /\ s[1] \in Schemes /\ s[2] = "/" /\ s[3] = "/" /\ s[4] \in Hosts
       /\ (Len(s) = 4 \/ s[5] \in {"/", "#"})
    THEN LET rest == SubSeq(s, 5, Len(s))
             h    == HashPos(rest)
             raw  == IF h = 0 THEN rest ELSE SubSeq(rest, 1, h - 1)
         IN  [ok       |-> TRUE,
              protocol |-> s[1],
              hostname |-> s[4],
              pathname |-> IF raw = <<>> THEN <<"/">> ELSE raw,
              hasFrag  |-> h # 0,
              fragment |-> IF h = 0 THEN <<>> ELSE SubSeq(rest, h + 1, Len(rest))]
    ELSE BadUrl

\* URL.origin
Origin(u) == <<u.protocol, "/", "/", u.hostname>>

\* URL.toString() / URL.href
UrlToString(u) ==
    Origin(u) \o u.pathname \o (IF u.hasFrag THEN <<"#">> \o u.fragment ELSE <<>>)

\* parsed.hash = ""
ClearHash(u) == [u EXCEPT !.hasFrag = FALSE, !.fragment = <<>>]

\* new URL(link, base); ok = FALSE stands for the TypeError it throws
ResolveUrl(link, base) ==
    LET b == ParseUrl(base) IN
    IF ParseUrl(link).ok THEN ParseUrl(link)
    ELSE IF Len(link) >= 1 /\ link[1] \in Schemes THEN BadUrl
    ELSE IF ~b.ok THEN BadUrl
    ELSE IF link = <<>> THEN ClearHash(b)
    ELSE IF StartsWith(link, <<"/", "/">>) THEN ParseUrl(<<b.protocol>> \o link)
    ELSE IF link[1] = "/" THEN ParseUrl(Origin(b) \o link)
    ELSE IF link[1] = "#" THEN ParseUrl(UrlToString(ClearHash(b)) \o link)
    ELSE ParseUrl(Origin(b) \o SubSeq(b.pathname, 1, LastSlash(b.pathname)) \o link)

-----------------------------------------------------------------------------
(* crawler.ts helpers *)

\* the pathname rewrite of normalizeUrl, lines 317-319
StripTrailingSlash(p) ==
    IF p # <<"/">> /\ EndsWith(p, <<"/">>) THEN SubSeq(p, 1, Len(p) - 1) ELSE p

\* mutant of normalizeUrl: the fragment is kept (line 315 is missing)
normalizeUrl_KeepHash(url) ==
    LET parsed == ParseUrl(url) IN
    IF parsed.ok
    THEN UrlToString([parsed EXCEPT !.pathname = StripTrailingSlash(parsed.pathname)])
    ELSE url

normalizeUrl(url) ==
    LET parsed == ParseUrl(url) IN
    IF parsed.ok
    THEN UrlToString([ClearHash(parsed) EXCEPT
                         !.pathname = StripTrailingSlash(parsed.pathname)])
    ELSE url

\* mutant of shouldIncludeUrl: the exclude loop is missing
shouldIncludeUrl_NoExclude(url, opts) ==
    \/ Len(opts.includePatterns) = 0
    \/ \E i \in 1..Len(opts.includePatterns) : Includes(url, opts.includePatterns[i])

\* mutant of shouldIncludeUrl: the include test is missing
shouldIncludeUrl_NoInclude(url, opts) ==
    \A i \in 1..Len(opts.excludePatterns) : ~Includes(url, opts.excludePatterns[i])

shouldIncludeUrl(url, opts) ==
    /\ \A i \in 1..Len(opts.excludePatterns) : ~Includes(url, opts.excludePatterns[i])
    /\ \/ Len(opts.includePatterns) = 0
       \/ \E i \in 1..Len(opts.includePatterns) : Includes(url, opts.includePatterns[i])

\* mutant of isSameDomain: the protocols are compared, not the hostnames
isSameDomain_Protocol(url1, url2) ==
    /\ ParseUrl(url1).ok
    /\ ParseUrl(url2).ok
    /\ ParseUrl(url1).protocol = ParseUrl(url2).protocol

isSameDomain(url1, url2) ==
    /\ ParseUrl(url1).ok
    /\ ParseUrl(url2).ok
    /\ ParseUrl(url1).hostname = ParseUrl(url2).hostname

\* [...new Set(list)]: first occurrences, in insertion order
RECURSIVE Dedup(_)
Dedup(list) ==
    IF list = <<>> THEN <<>>
    ELSE LET front == Dedup(SubSeq(list, 1, Len(list) - 1))
             last  == list[Len(list)]
         IN  IF \E i \in 1..Len(front) : front[i] = last THEN front
             ELSE Append(front, last)

RECURSIVE MapNormalize(_)
MapNormalize(list) ==
    IF list = <<>> THEN <<>>
    ELSE <<normalizeUrl(Head(list))>> \o MapNormalize(Tail(list))

-----------------------------------------------------------------------------
(* The browser page *)

\* the document served at a location: fragment and trailing slashes ignored
RECURSIVE StripAll(_)
StripAll(p) == IF StripTrailingSlash(p) = p THEN p ELSE StripAll(StripTrailingSlash(p))

PageKey(loc) ==
    LET u == ParseUrl(loc) IN
    IF u.ok THEN UrlToString([ClearHash(u) EXCEPT !.pathname = StripAll(u.pathname)])
    ELSE loc

\* raw href attributes of the anchors of the document at loc
Anchors(st, loc) ==
    IF PageKey(loc) \in DOMAIN st.links THEN st.links[PageKey(loc)] ELSE <<>>

\* HTMLAnchorElement.href: the attribute resolved against the document's URL,
\* the attribute itself when it cannot be resolved
AnchorHref(raw, loc) ==
    IF ResolveUrl(raw, loc).ok THEN UrlToString(ResolveUrl(raw, loc)) ELSE raw

\* strategy 1 of extractLinks: a[href] elements, their .href
RECURSIVE AnchorHrefs(_, _)
AnchorHrefs(raws, loc) ==
    IF raws = <<>> THEN <<>>
    ELSE (IF AnchorHref(Head(raws), loc) # <<>>
          THEN <<AnchorHref(Head(raws), loc)>> ELSE <<>>)
         \o AnchorHrefs(Tail(raws), loc)

\* strategy 2 of extractLinks: [href] elements, getAttribute('href')
RECURSIVE AttrHrefs(_)
AttrHrefs(raws) ==
    IF raws = <<>> THEN <<>>
    ELSE (IF Head(raws) # <<>> /\ ~StartsWith(Head(raws), <<"#">>)
          THEN <<Head(raws)>> ELSE <<>>)
         \o AttrHrefs(Tail(raws))

\* raw 'to' attributes of the elements of the document at loc
ToAttrs(st, loc) ==
    IF "tos" \in DOMAIN st /\ PageKey(loc) \in DOMAIN st.tos
    THEN st.tos[PageKey(loc)] ELSE <<>>

\* raw data-href attributes of the elements of the document at loc
DataAttrs(st, loc) ==
    IF "datas" \in DOMAIN st /\ PageKey(loc) \in DOMAIN st.datas
    THEN st.datas[PageKey(loc)] ELSE <<>>

\* lines 391-393 and 417-419: attr.startsWith('/') ? origin + attr
\* : new URL(attr, base).toString(); ok = FALSE when new URL throws
AbsoluteAttr(attr, base) ==
    IF StartsWith(attr, <<"/">>)
    THEN [ok |-> TRUE, url |-> Origin(ParseUrl(base)) \o attr]
    ELSE IF ResolveUrl(attr, base).ok
    THEN [ok |-> TRUE, url |-> UrlToString(ResolveUrl(attr, base))]
    ELSE [ok |-> FALSE]

\* strategies 2 and 3 of extractLinks: the non-empty 'to' and data-* attributes
RECURSIVE AttrUrls(_, _)
AttrUrls(attrs, base) ==
    IF attrs = <<>> THEN <<>>
    ELSE (IF Head(attrs) # <<>> /\ AbsoluteAttr(Head(attrs), base).ok
          THEN <<AbsoluteAttr(Head(attrs), base).url>> ELSE <<>>)
         \o AttrUrls(Tail(attrs), base)

\* an attribute that new URL cannot resolve makes the callback throw
EvaluateThrows(st, loc, base) ==
    LET attrs == ToAttrs(st, loc) \o DataAttrs(st, loc) IN
    \E i \in 1..Len(attrs) : attrs[i] # <<>> /\ ~AbsoluteAttr(attrs[i], base).ok

\* the page.evaluate callback of extractLinks
EvaluateLinks(st, loc, base) ==
    AnchorHrefs(Anchors(st, loc), loc) \o AttrHrefs(Anchors(st, loc))
    \o AttrUrls(ToAttrs(st, loc), base) \o AttrUrls(DataAttrs(st, loc), base)

\* the loop "Normalize and filter links" of extractLinks
RECURSIVE ResolveLinks(_, _)
ResolveLinks(links, baseUrl) ==
    IF links = <<>> THEN <<>>
    ELSE LET link == Head(links)
             baseUrlObj == ParseUrl(baseUrl)
             rest == ResolveLinks(Tail(links), baseUrl)
         IN  IF Len(link) >= 3 /\ link[1] \in Schemes /\ link[2] = "/" /\ link[3] = "/"
             THEN <<normalizeUrl(link)>> \o rest
             ELSE IF StartsWith(link, <<"/", "/">>)
             THEN <<normalizeUrl(<<baseUrlObj.protocol>> \o link)>> \o rest
             ELSE IF StartsWith(link, <<"/">>)
             THEN <<normalizeUrl(Origin(baseUrlObj) \o link)>> \o rest
             ELSE IF ResolveUrl(link, baseUrl).ok
             THEN <<normalizeUrl(UrlToString(ResolveUrl(link, baseUrl)))>> \o rest
             ELSE rest

\* extractLinks(page, baseUrl) when page.evaluate returns; [] when it throws
extractLinks(st, loc, baseUrl) ==
    IF ParseUrl(baseUrl).ok /\ ~EvaluateThrows(st, loc, baseUrl)
    THEN Dedup(ResolveLinks(EvaluateLinks(st, loc, baseUrl), baseUrl))
    ELSE <<>>

-----------------------------------------------------------------------------
(* Inputs: URL strings, sites and options *)

A == <<"https:", "/", "/", "a.test">>
O == <<"https:", "/", "/", "other.test">>

RootUrl   == A \o <<"/">>
XUrl      == A \o <<"/", "x">>
YUrl      == A \o <<"/", "y">>
BlogUrl   == A \o <<"/", "blog">>
\* "https://#": no host, new URL throws
Malformed == <<"https:", "/", "/", "#">>

NoItem == [url |-> <<>>, depth |-> -1]
NoResult == [returned |-> FALSE]

\* the site of the scenario of spec section 8
ScenarioSite ==
    [links |-> (RootUrl :> << <<"/", "x">>, O \o <<"/", "y">> >>),
     forms |-> << >>]

\* links that differ in fragments and in the number of trailing slashes
SlashSite ==
    [links |-> (RootUrl :> << <<"/", "x">> \o Slashes(MaxSlashes), <<"/", "x">>,
                              <<"/", "x", "#", "f">>, <<"/", "y", "/", "/", "/">> >>)
               @@ (XUrl :> << <<"y">>, <<"/">>, <<"#", "f">>, <<"/", "x", "/">> >>)
               @@ (YUrl :> << <<"/", "y", "/", "/">>, A \o <<"/", "x", "/", "#">> >>),
     forms |-> << >>]

\* pattern-filtered sections, another host, a malformed link and a form
BlogSite ==
    [links |-> (RootUrl :> << <<"/", "blog">>, <<"/", "admin">>,
                              O \o <<"/", "blog">>, <<"https:", "/", "/">> >>)
               @@ (BlogUrl :> << <<"blog", "/", "x">>, <<"/", "blog", "/", "admin">>,
                                 <<"/", "/", "other.test", "/", "y">>, <<"/">> >>)
               @@ (XUrl :> << <<"/", "blog">>, <<"y">> >>)
               @@ (YUrl :> << <<"/", "x">> >>),
     forms |-> (BlogUrl :> YUrl)]

AppFormUrl == A \o <<"/", "app", "/", "form">>
DoneUrl    == A \o <<"/", "done">>

\* a form in a subdirectory whose submission leads to a page at the top level
\* that holds a relative link
FormSite ==
    [links |-> (RootUrl :> << <<"app", "/", "form">> >>)
               @@ (AppFormUrl :> << <<"next">> >>)
               @@ (DoneUrl :> << <<"next">> >>),
     forms |-> (AppFormUrl :> DoneUrl)]

\* a page of a single-page application: the same protocol-relative reference
\* in an anchor, in a 'to' attribute and in a data-href attribute
SpaSite ==
    [links |-> (RootUrl :> << <<"/", "/", "other.test", "/", "y">> >>),
     tos   |-> (RootUrl :> << <<"/", "/", "other.test", "/", "y">>, <<"x">> >>),
     datas |-> (RootUrl :> << <<"/", "/", "other.test", "/", "z">> >>),
     forms |-> << >>]

Sites == {ScenarioSite, SlashSite, BlogSite, FormSite, SpaSite}

StartUrls == {RootUrl, A \o <<"/", "x", "/">>, A \o <<"/", "blog", "#", "f">>, Malformed}

PatternChoices ==
    { [ex |-> << >>, inc |-> << >>],
      [ex |-> << <<"/", "admin">> >>, inc |-> << >>],
      [ex |-> << <<"#">>, <<"y">> >>, inc |-> << <<"/", "blog">>, <<"x">> >>] }

RouteChoices ==
    { << >>,
      << <<"/", "x">>, <<"y", "/">>, <<"/", "x", "/">> >>,
      << O \o <<"/", "y">>, <<"/", "admin">>, <<"/">> >> }

OptionsOf(d, p, sd, pat, routes, fill) ==
    [maxDepth |-> d, maxPages |-> p, sameDomainOnly |-> sd,
     excludePatterns |-> pat.ex, includePatterns |-> pat.inc,
     routesFromCode |-> routes, autoFillForms |-> fill]

ScenarioOptions ==
    OptionsOf(1, 10, TRUE, [ex |-> << >>, inc |-> << >>], << >>, TRUE)

-----------------------------------------------------------------------------
(* crawlWebsite *)

Init ==
    /\ \/ /\ startUrl \in StartUrls
          /\ site \in Sites
          /\ \E d \in (-1)..MaxDepthBound, p \in 0..MaxPagesBound, sd \in BOOLEAN,
                pat \in PatternChoices, routes \in RouteChoices, fill \in BOOLEAN :
                options = OptionsOf(d, p, sd, pat, routes, fill)
       \/ /\ startUrl = RootUrl
          /\ site = ScenarioSite
          /\ options = ScenarioOptions
    /\ pc = "seed"
    /\ visited = {}
    /\ toVisit = << [url |-> normalizeUrl(startUrl), depth |-> 0] >>
    /\ discovered = << >>
    /\ cur = NoItem
    /\ navAttempt = 0
    /\ pageUrl = << >>
    /\ result = NoResult
    /\ depths = << >>
    /\ navLog = << >>
    /\ log = "start"
    /\ faults = 0
    /\ formUrls = {}
    /\ nIn = << >>
    /\ nOut = << >>
    /\ gen = << >>
    /\ cap = << >>
    /\ form = << >>

\* lines 515-518: the absolute URL of a route; ok = FALSE when new URL throws
RouteUrl(route, start) ==
    IF StartsWith(route, <<"/">>)
    THEN [ok |-> TRUE, url |-> Origin(ParseUrl(start)) \o route]
    ELSE IF ResolveUrl(route, start).ok
    THEN [ok |-> TRUE, url |-> UrlToString(ResolveUrl(route, start))]
    ELSE [ok |-> FALSE]

\* mutant of AddRoutes: the hostname of a route is not tested
RECURSIVE AddRoutes_AnyHost(_, _, _, _)
AddRoutes_AnyHost(routes, start, queue, addedRoutes) ==
    IF routes = <<>> THEN [thrown |-> FALSE, toVisit |-> queue]
    ELSE LET r == RouteUrl(Head(routes), start) IN
         IF ~r.ok THEN [thrown |-> TRUE, toVisit |-> queue]
         ELSE LET normalizedRoute == normalizeUrl(r.url) IN
              IF normalizedRoute \notin addedRoutes
              THEN AddRoutes_AnyHost(Tail(routes), start,
                                     Append(queue, [url |-> normalizedRoute, depth |-> 0]),
                                     addedRoutes \cup {normalizedRoute})
              ELSE AddRoutes_AnyHost(Tail(routes), start, queue, addedRoutes)

\* lines 515-527: the loop over options.routesFromCode
RECURSIVE AddRoutes(_, _, _, _)
AddRoutes(routes, start, queue, addedRoutes) ==
    IF routes = <<>> THEN [thrown |-> FALSE, toVisit |-> queue]
    ELSE LET r == RouteUrl(Head(routes), start) IN
         IF ~r.ok THEN [thrown |-> TRUE, toVisit |-> queue]
         ELSE LET normalizedRoute == normalizeUrl(r.url) IN
              IF normalizedRoute \notin addedRoutes /\ isSameDomain(normalizedRoute, start)
              THEN AddRoutes(Tail(routes), start,
                             Append(queue, [url |-> normalizedRoute, depth |-> 0]),
                             addedRoutes \cup {normalizedRoute})
              ELSE AddRoutes(Tail(routes), start, queue, addedRoutes)

\* lines 509-529
SeedRoutes(routes, start, queue) ==
    IF Len(routes) > 0
    THEN IF ParseUrl(start).ok THEN AddRoutes(routes, start, queue, {})
         ELSE [thrown |-> TRUE, toVisit |-> queue]
    ELSE [thrown |-> FALSE, toVisit |-> queue]

Seed ==
    /\ pc = "seed"
    /\ LET s == SeedRoutes(options.routesFromCode, startUrl, toVisit) IN
       /\ toVisit' = s.toVisit
       /\ pc' = IF s.thrown THEN "thrown" ELSE "loop"
       /\ log' = IF s.thrown THEN "throw" ELSE "seeded"
    /\ UNCHANGED <<startUrl, options, site, visited, discovered, cur, navAttempt,
                   pageUrl, result, depths, navLog, faults, formUrls, harness>>

\* mutant of PagesLeft: the limit is tested with <= instead of <
PagesLeft_OffByOne(disc, opts) == Len(disc) <= opts.maxPages

\* the maxPages guard: the while condition (line 531) and, negated, the
\* break test after a commit (line 566)
PagesLeft(disc, opts) == Len(disc) < opts.maxPages

\* line 531
LoopCond == Len(toVisit) > 0 /\ PagesLeft(discovered, options)

\* mutant of Decision: the pattern test comes before the domain test
Decision_PatternFirst(item, vis, opts, start) ==
    LET normalizedUrl == normalizeUrl(item.url) IN
    IF normalizedUrl \in vis THEN "skip-visited"
    ELSE IF item.depth > opts.maxDepth THEN "skip-depth"
    ELSE IF ~shouldIncludeUrl(normalizedUrl, opts) THEN "skip-pattern"
    ELSE IF opts.sameDomainOnly /\ ~isSameDomain(normalizedUrl, start) THEN "skip-domain"
    ELSE "commit"

\* mutant of Decision: the visited test of line 536 is left out
Decision_NoVisited(item, vis, opts, start) ==
    LET normalizedUrl == normalizeUrl(item.url) IN
    IF item.depth > opts.maxDepth THEN "skip-depth"
    ELSE IF opts.sameDomainOnly /\ ~isSameDomain(normalizedUrl, start) THEN "skip-domain"
    ELSE IF ~shouldIncludeUrl(normalizedUrl, opts) THEN "skip-pattern"
    ELSE "commit"

\* mutant of Decision: the depth test of line 542 is left out
Decision_NoDepth(item, vis, opts, start) ==
    LET normalizedUrl == normalizeUrl(item.url) IN
    IF normalizedUrl \in vis THEN "skip-visited"
    ELSE IF opts.sameDomainOnly /\ ~isSameDomain(normalizedUrl, start) THEN "skip-domain"
    ELSE IF ~shouldIncludeUrl(normalizedUrl, opts) THEN "skip-pattern"
    ELSE "commit"

\* lines 535-557: what the loop does with a dequeued item
Decision(item, vis, opts, start) ==
    LET normalizedUrl == normalizeUrl(item.url) IN
    IF normalizedUrl \in vis THEN "skip-visited"
    ELSE IF item.depth > opts.maxDepth THEN "skip-depth"
    ELSE IF opts.sameDomainOnly /\ ~isSameDomain(normalizedUrl, start) THEN "skip-domain"
    ELSE IF ~shouldIncludeUrl(normalizedUrl, opts) THEN "skip-pattern"
    ELSE "commit"

\* mutant of IsLeaf: the test of line 572 is left out
IsLeaf_Never(depth, opts) == FALSE

\* mutant of IsLeaf: > instead of >=
IsLeaf_OffByOne(depth, opts) == depth > opts.maxDepth

\* line 572: a committed item at this depth is not expanded
IsLeaf(depth, opts) == depth >= opts.maxDepth

\* lines 686-699
Return(disc, vis) ==
    LET uniqueUrls == Dedup(MapNormalize(disc)) IN
    [returned |-> TRUE, urls |-> uniqueUrls, discovered |-> Len(uniqueUrls),
     skipped |-> Cardinality(vis) - Len(disc)]

\* mutant of EnqueueLinks: unshift instead of push, the frontier is a stack
RECURSIVE EnqueueLinks_Front(_, _, _, _, _, _)
EnqueueLinks_Front(links, queue, vis, opts, start, depth) ==
    IF links = <<>> THEN queue
    ELSE LET link == Head(links) IN
         IF \/ link \in vis
            \/ opts.sameDomainOnly /\ ~isSameDomain(link, start)
            \/ ~shouldIncludeUrl(link, opts)
         THEN EnqueueLinks_Front(Tail(links), queue, vis, opts, start, depth)
         ELSE EnqueueLinks_Front(Tail(links),
                                 <<[url |-> link, depth |-> depth + 1]>> \o queue,
                                 vis, opts, start, depth)

\* mutant of EnqueueLinks: the visited test of line 656 is left out
RECURSIVE EnqueueLinks_NoVisited(_, _, _, _, _, _)
EnqueueLinks_NoVisited(links, queue, vis, opts, start, depth) ==
    IF links = <<>> THEN queue
    ELSE LET link == Head(links) IN
         IF \/ opts.sameDomainOnly /\ ~isSameDomain(link, start)
            \/ ~shouldIncludeUrl(link, opts)
         THEN EnqueueLinks_NoVisited(Tail(links), queue, vis, opts, start, depth)
         ELSE EnqueueLinks_NoVisited(Tail(links),
                                     Append(queue, [url |-> link, depth |-> depth + 1]),
                                     vis, opts, start, depth)

\* lines 655-675: "Filter and add new links to queue"
RECURSIVE EnqueueLinks(_, _, _, _, _, _)
EnqueueLinks(links, queue, vis, opts, start, depth) ==
    IF links = <<>> THEN queue
    ELSE LET link == Head(links) IN
         IF \/ link \in vis
            \/ opts.sameDomainOnly /\ ~isSameDomain(link, start)
            \/ ~shouldIncludeUrl(link, opts)
         THEN EnqueueLinks(Tail(links), queue, vis, opts, start, depth)
         ELSE EnqueueLinks(Tail(links), Append(queue, [url |-> link, depth |-> depth + 1]),
                           vis, opts, start, depth)

\* the while condition fails: lines 531, 686-699
LoopExit ==
    /\ pc = "loop"
    /\ ~LoopCond
    /\ pc' = "done"
    /\ result' = Return(discovered, visited)
    /\ log' = "complete"
    /\ UNCHANGED <<startUrl, options, site, visited, toVisit, discovered, cur,
                   navAttempt, pageUrl, depths, navLog, faults, formUrls, harness>>

\* lines 532-557: the dequeued item is skipped with the console message tag
Skip(tag) ==
    /\ pc = "loop"
    /\ LoopCond
    /\ Decision(Head(toVisit), visited, options, startUrl) = tag
    /\ cur' = Head(toVisit)
    /\ toVisit' = Tail(toVisit)
    /\ log' = tag

\* lines 535-539
SkipVisited ==
    /\ Skip("skip-visited")
    /\ UNCHANGED <<startUrl, options, site, pc, visited, discovered, navAttempt,
                   pageUrl, result, depths, navLog, faults, formUrls, harness>>

\* lines 541-545
SkipDepth ==
    /\ Skip("skip-depth")
    /\ UNCHANGED <<startUrl, options, site, pc, visited, discovered, navAttempt,
                   pageUrl, result, depths, navLog, faults, formUrls, harness>>

\* lines 547-551
SkipDomain ==
    /\ Skip("skip-domain")
    /\ UNCHANGED <<startUrl, options, site, pc, visited, discovered, navAttempt,
                   pageUrl, result, depths, navLog, faults, formUrls, harness>>

\* lines 553-557
SkipPattern ==
    /\ Skip("skip-pattern")
    /\ UNCHANGED <<startUrl, options, site, pc, visited, discovered, navAttempt,
                   pageUrl, result, depths, navLog, faults, formUrls, harness>>

\* mutant of Commit: the key is pushed to discovered but not added to visited
Commit_NoMark ==
    /\ pc = "loop"
    /\ LoopCond
    /\ Decision(Head(toVisit), visited, options, startUrl) = "commit"
    /\ cur' = Head(toVisit)
    /\ toVisit' = Tail(toVisit)
    /\ visited' = visited
    /\ discovered' = Append(discovered, normalizeUrl(Head(toVisit).url))
    /\ depths' = Append(depths, Head(toVisit).depth)

\* lines 532-561: the dequeued item is committed
Commit ==
    /\ pc = "loop"
    /\ LoopCond
    /\ Decision(Head(toVisit), visited, options, startUrl) = "commit"
    /\ cur' = Head(toVisit)
    /\ toVisit' = Tail(toVisit)
    /\ visited' = visited \cup {normalizeUrl(Head(toVisit).url)}
    /\ discovered' = Append(discovered, normalizeUrl(Head(toVisit).url))
    /\ depths' = Append(depths, Head(toVisit).depth)

\* lines 565-569: the commit reaches maxPages, break and return
CommitBreak ==
    /\ Commit
    /\ ~PagesLeft(discovered', options)
    /\ pc' = "done"
    /\ result' = Return(discovered', visited')
    /\ log' = "max-pages"
    /\ UNCHANGED <<startUrl, options, site, navAttempt, pageUrl, navLog, faults,
                   formUrls, harness>>

\* lines 571-574: committed at max depth, no link extraction
CommitLeaf ==
    /\ Commit
    /\ PagesLeft(discovered', options)
    /\ IsLeaf(Head(toVisit).depth, options)
    /\ log' = "leaf"
    /\ UNCHANGED <<startUrl, options, site, pc, navAttempt, pageUrl, result, navLog,
                   faults, formUrls, harness>>

\* lines 576-578: committed, about to navigate
CommitExpand ==
    /\ Commit
    /\ PagesLeft(discovered', options)
    /\ ~IsLeaf(Head(toVisit).depth, options)
    /\ pc' = "goto"
    /\ navAttempt' = 0
    /\ log' = "processing"
    /\ UNCHANGED <<startUrl, options, site, pageUrl, result, navLog, faults, formUrls, harness>>

\* mutant of StageAfter: the links are extracted before the form is handled
StageAfter_ExtractFirst(stage) ==
    CASE stage = "goto" -> "extract"
      [] stage = "extract" -> "form"
      [] stage = "form" -> "loop"

\* lines 576-684: the statements of the try block run one after the other, each
\* awaited: navigation (579-596), form handling (621-644), link extraction
\* (646-679), then the next iteration of the while loop
StageAfter(stage) ==
    CASE stage = "goto" -> "form"
      [] stage = "form" -> "extract"
      [] stage = "extract" -> "loop"

\* waitUntil of the page.goto attempts, lines 581 and 588
WaitUntil == <<"domcontentloaded", "load">>

\* timeout of the page.goto attempts in milliseconds, lines 578, 582 and 589
NavTimeout == <<30000, 30000>>

\* how much of the page load a wait condition waits for: networkidle is the
\* strictest, "load" is "less strict", domcontentloaded is the "fastest"
Strictness(w) ==
    CASE w = "networkidle" -> 3
      [] w = "load" -> 2
      [] w = "domcontentloaded" -> 1

\* lines 580-583, 587-590: a page.goto that resolves
GotoOk ==
    /\ pc = "goto"
    /\ ParseUrl(cur.url).ok
    /\ navLog' = Append(navLog, [url |-> cur.url, depth |-> cur.depth,
                                 waitUntil |-> WaitUntil[navAttempt + 1],
                                 timeout |-> NavTimeout[navAttempt + 1], ok |-> TRUE])
    /\ navAttempt' = navAttempt + 1
    /\ pageUrl' = UrlToString(ParseUrl(cur.url))
    /\ pc' = StageAfter("goto")
    /\ UNCHANGED <<startUrl, options, site, visited, toVisit, discovered, cur, result,
                   depths, log, faults, formUrls, harness>>

\* lines 584-596: a page.goto that rejects; the second rejection skips the item
GotoFail ==
    /\ pc = "goto"
    /\ faults < MaxFaults \/ ~ParseUrl(cur.url).ok
    /\ navLog' = Append(navLog, [url |-> cur.url, depth |-> cur.depth,
                                 waitUntil |-> WaitUntil[navAttempt + 1],
                                 timeout |-> NavTimeout[navAttempt + 1], ok |-> FALSE])
    /\ navAttempt' = navAttempt + 1
    /\ faults' = IF ParseUrl(cur.url).ok THEN faults + 1 ELSE faults
    /\ pc' = IF navAttempt' = Len(WaitUntil) THEN "loop" ELSE "goto"
    /\ log' = IF navAttempt' = Len(WaitUntil) THEN "nav-failed" ELSE log
    /\ UNCHANGED <<startUrl, options, site, visited, toVisit, discovered, cur, pageUrl,
                   result, depths, formUrls, harness>>

HasForm(st, loc) == PageKey(loc) \in DOMAIN st.forms

\* mutant of detectForms: a failing page.evaluate is thrown on to the caller
detectForms_Rethrow(st, loc, evaluates) ==
    IF evaluates THEN (IF HasForm(st, loc) THEN "true" ELSE "false") ELSE "throw"

\* part_001 93-104: the answer of page.evaluate, false when it throws
detectForms(st, loc, evaluates) ==
    IF evaluates THEN (IF HasForm(st, loc) THEN "true" ELSE "false") ELSE "false"

\* lines 621-644: auto-fill disabled, or detectForms answers false
FormSkip ==
    /\ pc = "form"
    /\ options.autoFillForms = FALSE \/ detectForms(site, pageUrl, TRUE) = "false"
    /\ pc' = StageAfter("form")
    /\ UNCHANGED <<startUrl, options, site, visited, toVisit, discovered, cur,
                   navAttempt, pageUrl, result, depths, navLog, log, faults, formUrls, harness>>

\* lines 623-634: a form is on the page and autoFillForm returns false
FormNotFilled ==
    /\ pc = "form"
    /\ options.autoFillForms # FALSE
    /\ detectForms(site, pageUrl, TRUE) = "true"
    /\ pc' = StageAfter("form")
    /\ log' = "form-not-filled"
    /\ UNCHANGED <<startUrl, options, site, visited, toVisit, discovered, cur,
                   navAttempt, pageUrl, result, depths, navLog, faults, formUrls, harness>>

\* lines 623-642: the form is submitted and the page moves to the form's target
FormFilled ==
    /\ pc = "form"
    /\ options.autoFillForms # FALSE
    /\ detectForms(site, pageUrl, TRUE) = "true"
    /\ pageUrl' = site.forms[PageKey(pageUrl)]
    /\ formUrls' = IF normalizeUrl(pageUrl') # normalizeUrl(pageUrl)
                   THEN formUrls \cup {pageUrl'} ELSE formUrls
    /\ pc' = StageAfter("form")
    /\ log' = "form-filled"
    /\ UNCHANGED <<startUrl, options, site, visited, toVisit, discovered, cur,
                   navAttempt, result, depths, navLog, faults, harness>>

\* lines 622-624 with part_001 101-103: page.evaluate throws inside detectForms;
\* an answer of false goes on to the link extraction, a throw would reach the
\* catch of lines 680-683
DetectFormsFail ==
    /\ pc = "form"
    /\ options.autoFillForms # FALSE
    /\ faults < MaxFaults
    /\ faults' = faults + 1
    /\ pc' = IF detectForms(site, pageUrl, FALSE) = "false" THEN StageAfter("form") ELSE "loop"
    /\ log' = "detect-failed"
    /\ UNCHANGED <<startUrl, options, site, visited, toVisit, discovered, cur,
                   navAttempt, pageUrl, result, depths, navLog, formUrls, harness>>

\* lines 646-679: links extracted from the page and enqueued
Extract ==
    /\ pc = "extract"
    /\ toVisit' = EnqueueLinks(extractLinks(site, pageUrl, cur.url), toVisit, visited,
                               options, startUrl, cur.depth)
    /\ pc' = StageAfter("extract")
    /\ log' = "extracted"
    /\ UNCHANGED <<startUrl, options, site, visited, discovered, cur, navAttempt,
                   pageUrl, result, depths, navLog, faults, formUrls, harness>>

\* mutant of extractLinksCatch: the page's own location is the fallback
extractLinksCatch_Location(loc, baseUrl) == <<normalizeUrl(loc)>>

\* lines 486-489: what extractLinks returns when page.evaluate throws
extractLinksCatch(loc, baseUrl) == << >>

\* lines 647-679 when page.evaluate throws inside extractLinks
ExtractFail ==
    /\ pc = "extract"
    /\ faults < MaxFaults
    /\ faults' = faults + 1
    /\ toVisit' = EnqueueLinks(extractLinksCatch(pageUrl, cur.url), toVisit, visited,
                               options, startUrl, cur.depth)
    /\ pc' = StageAfter("extract")
    /\ log' = "extract-failed"
    /\ UNCHANGED <<startUrl, options, site, visited, discovered, cur,
                   navAttempt, pageUrl, result, depths, navLog, formUrls, harness>>

\* lines 680-683: a wait of lines 598-619 throws, the item is abandoned
ProcessingError ==
    /\ pc = "form"
    /\ faults < MaxFaults
    /\ faults' = faults + 1
    /\ pc' = "loop"
    /\ log' = "error"
    /\ UNCHANGED <<startUrl, options, site, visited, toVisit, discovered, cur,
                   navAttempt, pageUrl, result, depths, navLog, formUrls, harness>>

Next ==
    \/ Seed
    \/ LoopExit
    \/ SkipVisited
    \/ SkipDepth
    \/ SkipDomain
    \/ SkipPattern
    \/ CommitBreak
    \/ CommitLeaf
    \/ CommitExpand
    \/ GotoOk
    \/ GotoFail
    \/ FormSkip
    \/ DetectFormsFail
    \/ FormNotFilled
    \/ FormFilled
    \/ Extract
    \/ ExtractFail
    \/ ProcessingError

Spec == Init /\ [][Next]_vars

-----------------------------------------------------------------------------
(* normalizeUrl applied to a bounded set of URL strings *)

Paths == { << >>, <<"/">>, <<"/", "x">>, <<"/", "x", "/", "y">> }
Fragments == { << >>, <<"#">>, <<"#", "f">> }

WellFormedUrls ==
    { o \o p \o Slashes(k) \o f :
        o \in {A, O}, p \in Paths, k \in 0..MaxSlashes, f \in Fragments }

MalformedUrls ==
    { Malformed, <<"https:", "/", "/">>, <<"bad">>, <<"bad", "/">>,
      <<"/", "x", "/">>, <<"bad", "#", "f">>, << >> }

UrlStrings == WellFormedUrls \cup MalformedUrls

InitNormalize ==
    /\ nIn \in UrlStrings
    /\ nOut = << >>
    /\ startUrl = << >>
    /\ site = [links |-> << >>, forms |-> << >>]
    /\ options = OptionsOf(0, 0, TRUE, [ex |-> << >>, inc |-> << >>], << >>, FALSE)
    /\ pc = "idle"
    /\ visited = {}
    /\ toVisit = << >>
    /\ discovered = << >>
    /\ cur = NoItem
    /\ navAttempt = 0
    /\ pageUrl = << >>
    /\ result = NoResult
    /\ depths = << >>
    /\ navLog = << >>
    /\ log = "idle"
    /\ faults = 0
    /\ formUrls = {}
    /\ gen = << >>
    /\ cap = << >>
    /\ form = << >>

\* normalizeUrl applied to the input, then to its own output
NormalizeStep ==
    /\ pc = "idle"
    /\ Len(nOut) < 3
    /\ nOut' = Append(nOut, normalizeUrl(IF nOut = << >> THEN nIn ELSE nOut[Len(nOut)]))
    /\ UNCHANGED <<nIn, gen, form, cap, crawlVars>>

NextNormalize == NormalizeStep

SpecNormalize == InitNormalize /\ [][NextNormalize]_vars

-----------------------------------------------------------------------------
(* generateValueForField applied to a bounded set of field metadata records *)

\* the variables of crawlWebsite while a function harness runs
CrawlIdle ==
    /\ startUrl = << >>
    /\ site = [links |-> << >>, forms |-> << >>]
    /\ options = OptionsOf(0, 0, TRUE, [ex |-> << >>, inc |-> << >>], << >>, FALSE)
    /\ pc = "idle"
    /\ visited = {}
    /\ toVisit = << >>
    /\ discovered = << >>
    /\ cur = NoItem
    /\ navAttempt = 0
    /\ pageUrl = << >>
    /\ result = NoResult
    /\ depths = << >>
    /\ navLog = << >>
    /\ log = "idle"
    /\ faults = 0
    /\ formUrls = {}

\* String.prototype.toLowerCase on one token
LowerToken(t) ==
    CASE t = "Name" -> "name"
      [] t = "Email" -> "email"
      [] t = "EMAIL" -> "email"
      [] t = "Phone" -> "phone"
      [] t = "Tel" -> "tel"
      [] t = "Age" -> "age"
      [] t = "Company" -> "company"
      [] t = "Organization" -> "organization"
      [] t = "Address" -> "address"
      [] t = "City" -> "city"
      [] t = "Country" -> "country"
      [] t = "Full" -> "full"
      [] OTHER -> t

\* String.prototype.toLowerCase
toLowerCase(str) == [i \in 1..Len(str) |-> LowerToken(str[i])]

\* lines 253-335; "" is the empty string the caller treats as "no value"
generateValueForField(info) ==
    LET lowerName == toLowerCase(info.name)
        lowerLabel == toLowerCase(info.label)
        lowerPlaceholder == toLowerCase(info.placeholder)
    IN  IF \/ Includes(lowerName, <<"name">>)
           \/ Includes(lowerLabel, <<"name">>)
           \/ Includes(lowerPlaceholder, <<"name">>)
        THEN "John Doe"
        ELSE IF \/ info.type = "email"
                \/ Includes(lowerName, <<"email">>)
                \/ Includes(lowerLabel, <<"email">>)
                \/ Includes(lowerPlaceholder, <<"email">>)
        THEN "test@example.com"
        ELSE IF info.type = "password"
        THEN "TestPassword123!"
        ELSE IF \/ Includes(lowerName, <<"phone">>)
                \/ Includes(lowerLabel, <<"phone">>)
                \/ Includes(lowerPlaceholder, <<"phone">>)
                \/ Includes(lowerName, <<"tel">>)
        THEN "+1234567890"
        ELSE IF info.type = "number" \/ Includes(lowerName, <<"age">>)
        THEN "25"
        ELSE IF \/ Includes(lowerName, <<"company">>)
                \/ Includes(lowerName, <<"organization">>)
                \/ Includes(lowerLabel, <<"company">>)
        THEN "Test Company"
        ELSE IF Includes(lowerName, <<"address">>) \/ Includes(lowerLabel, <<"address">>)
        THEN "123 Test Street"
        ELSE IF Includes(lowerName, <<"city">>) \/ Includes(lowerLabel, <<"city">>)
        THEN "Test City"
        ELSE IF Includes(lowerName, <<"country">>) \/ Includes(lowerLabel, <<"country">>)
        THEN "United States"
        ELSE IF info.type = "text" \/ info.type = "textarea"
        THEN "Test Value"
        ELSE ""

\* element.type of input, select and textarea elements
FieldTypes ==
    {"text", "email", "password", "number", "tel", "checkbox", "select-one", "textarea"}

FieldNames ==
    { << >>, <<"x">>, <<"user", "name">>, <<"EMAIL">>, <<"email">>, <<"pass", "word">>,
      <<"phone">>, <<"ho", "tel">>, <<"im", "age">>, <<"company">>,
      <<"Organization">>, <<"address">>, <<"city">>, <<"country">> }

FieldLabels ==
    { << >>, <<"Full", " ", "Name">>, <<"Email">>, <<"Phone">>, <<"Tel">>, <<"Age">>,
      <<"Company">>, <<"organization">>, <<"Address">>, <<"City">>, <<"Country">> }

FieldPlaceholders ==
    { << >>, <<"Name">>, <<"email">>, <<"phone">>, <<"tel">>, <<"age">>,
      <<"company">>, <<"address">>, <<"country">> }

FieldInfos ==
    [type : FieldTypes, name : FieldNames, label : FieldLabels,
     placeholder : FieldPlaceholders]

InitFields ==
    /\ CrawlIdle
    /\ nIn = << >>
    /\ nOut = << >>
    /\ cap = << >>
    /\ form = << >>
    /\ \E info \in FieldInfos : gen = [info |-> info, applied |-> FALSE, value |-> ""]

\* one call of generateValueForField
GenerateValue ==
    /\ pc = "idle"
    /\ gen # << >>
    /\ ~gen.applied
    /\ gen' = [gen EXCEPT !.applied = TRUE, !.value = generateValueForField(gen.info)]
    /\ UNCHANGED <<nIn, nOut, form, cap, crawlVars>>

NextFields == GenerateValue

SpecFields == InitFields /\ [][NextFields]_vars

-----------------------------------------------------------------------------
(* autoFillForm applied to bounded pages and custom field lists *)

\* a selector: #id, [name="..."] or tag:nth-of-type(n)
ById(id) == [by |-> "id", v |-> id, tag |-> "", n |-> 0]
ByName(name) == [by |-> "name", v |-> name, tag |-> "", n |-> 0]
NthOfType(tag, n) == [by |-> "nth", v |-> << >>, tag |-> tag, n |-> n]

\* lines 209-216: the selector generateDefaultFields gives an element
SelectorOf(el, index) ==
    IF el.id # << >> THEN ById(el.id)
    ELSE IF el.name # << >> THEN ByName(el.name)
    ELSE NthOfType(el.tag, index + 1)

\* lines 189-226: the metadata record of the element at position index + 1
FieldInfo(el, index) ==
    [selector |-> SelectorOf(el, index),
     type |-> IF el.type = "" THEN "text" ELSE el.type,
     name |-> IF el.name # << >> THEN el.name ELSE el.id,
     placeholder |-> el.placeholder,
     label |-> el.label]

\* lines 232-241: the loop over fieldInfo, from position k on
RECURSIVE DefaultFieldsFrom(_, _)
DefaultFieldsFrom(elements, k) ==
    IF k > Len(elements) THEN << >>
    ELSE LET info == FieldInfo(elements[k], k - 1)
             value == generateValueForField(info)
         IN  (IF value # ""
              THEN << [selector |-> info.selector, value |-> value] >>
              ELSE << >>)
             \o DefaultFieldsFrom(elements, k + 1)

\* lines 174-248 when page.evaluate returns
generateDefaultFields(page) == DefaultFieldsFrom(page.elements, 1)

\* the element at position i matches the selector; the inputs, textareas and
\* selects of the page are siblings
Matches(page, i, sel) ==
    LET el == page.elements[i] IN
    CASE sel.by = "id" -> el.id # << >> /\ el.id = sel.v
      [] sel.by = "name" -> el.name # << >> /\ el.name = sel.v
      [] OTHER -> /\ el.tag = sel.tag
                  /\ Cardinality({ j \in 1..i : page.elements[j].tag = el.tag }) = sel.n

\* page.$(selector): position of the first matching element, 0 for null
Query(page, sel) ==
    IF \E i \in 1..Len(page.elements) : Matches(page, i, sel)
    THEN CHOOSE i \in 1..Len(page.elements) :
             /\ Matches(page, i, sel)
             /\ \A j \in 1..(i - 1) : ~Matches(page, j, sel)
    ELSE 0

\* lines 134-145: the instruction carried out on the element found for a field
FillAction(page, field, k) ==
    LET el == page.elements[Query(page, field.selector)] IN
    IF el.tag \in {"input", "textarea"}
    THEN IF el.type \in {"checkbox", "radio"}
         THEN << [op |-> "check", selector |-> field.selector, value |-> "", field |-> k,
                  target |-> Query(page, field.selector)] >>
         ELSE << [op |-> "fill", selector |-> field.selector, value |-> field.value,
                  field |-> k, target |-> Query(page, field.selector)] >>
    ELSE IF el.tag = "select"
    THEN << [op |-> "selectOption", selector |-> field.selector, value |-> field.value,
             field |-> k, target |-> Query(page, field.selector)] >>
    ELSE << >>

\* lines 343-355
submitSelectors ==
    << "button[type=submit]", "input[type=submit]", "button:has-text(Submit)",
       "button:has-text(Continue)", "button:has-text(Next)", "button:has-text(Go)",
       "button:has-text(Enter)", "[role=button]:has-text(Submit)", "form button",
       ".submit-button", "#submit" >>

ClickAction(selector) ==
    [op |-> "click", selector |-> selector, value |-> "", field |-> 0, target |-> 0]

\* lines 357-370: the loop over the submit selectors, from position k on: the
\* clicks dispatched, and whether a click resolved (return true at line 364).
\* A click that rejects is caught at line 367 and the loop goes on, whether
\* the rejection came before the click was dispatched or after it
RECURSIVE ClickFirst(_, _)
ClickFirst(page, k) ==
    IF k > Len(submitSelectors) THEN [actions |-> << >>, returned |-> FALSE]
    ELSE LET selector == submitSelectors[k] IN
         IF selector \in DOMAIN page.buttons /\ page.buttons[selector].visible
         THEN IF ~page.buttons[selector].throws
              THEN [actions |-> << ClickAction(selector) >>, returned |-> TRUE]
              ELSE LET rest == ClickFirst(page, k + 1) IN
                   [actions |-> (IF page.buttons[selector].dispatched
                                 THEN << ClickAction(selector) >> ELSE << >>)
                                \o rest.actions,
                    returned |-> rest.returned]
         ELSE ClickFirst(page, k + 1)

\* the element at position i is the last of its tag among its siblings
LastOfType(page, i) ==
    \A j \in (i + 1)..Len(page.elements) : page.elements[j].tag # page.elements[i].tag

\* the element matches "input:last-of-type, textarea:last-of-type"
MatchesLastInput(page, i) ==
    page.elements[i].tag \in {"input", "textarea"} /\ LastOfType(page, i)

\* line 374, page.$("input:last-of-type, textarea:last-of-type"): position of
\* the first element in document order that matches, 0 for null
QueryLastInput(page) ==
    IF \E i \in 1..Len(page.elements) : MatchesLastInput(page, i)
    THEN CHOOSE i \in 1..Len(page.elements) :
             /\ MatchesLastInput(page, i)
             /\ \A j \in 1..(i - 1) : ~MatchesLastInput(page, j)
    ELSE 0

\* lines 340-387: the actions submitForm performs and the value it returns
submitForm(page) ==
    LET clicks == ClickFirst(page, 1) IN
    IF clicks.returned
    THEN clicks
    ELSE IF QueryLastInput(page) = 0 \/ page.pressThrows
    THEN [actions |-> clicks.actions, returned |-> FALSE]
    ELSE [actions |-> clicks.actions \o
                      << [op |-> "press",
                          selector |-> "input:last-of-type, textarea:last-of-type",
                          value |-> "Enter", field |-> 0,
                          target |-> QueryLastInput(page)] >>,
          returned |-> TRUE]

\* mutant of IsProvided: an empty custom list counts as absent
IsProvided_NonEmpty(customFields) ==
    customFields.defined /\ Len(customFields.fields) > 0

\* line 117: the truthiness of customFields in "customFields || ..."
IsProvided(customFields) == customFields.defined

\* number of form controls on a page
MaxElements == 2

Element(tag, type, id, name, label, placeholder) ==
    [tag |-> tag, type |-> type, id |-> id, name |-> name, label |-> label,
     placeholder |-> placeholder]

Elements ==
    { Element("input", "email", << >>, <<"email">>, << >>, << >>),
      Element("input", "password", <<"pw">>, << >>, <<"Pass", "word">>, << >>),
      Element("input", "text", << >>, << >>, << >>, <<"City">>),
      Element("input", "checkbox", << >>, <<"agree">>, << >>, << >>),
      Element("select", "select-one", << >>, <<"country">>, << >>, << >>),
      Element("input", "date", << >>, <<"when">>, << >>, << >>),
      Element("textarea", "textarea", << >>, <<"notes">>, << >>, << >>) }

ElementLists == UNION { [1..n -> Elements] : n \in 0..MaxElements }

ButtonChoices ==
    { << >>,
      ("button[type=submit]" :> [visible |-> TRUE, throws |-> FALSE, dispatched |-> TRUE]),
      ("form button" :> [visible |-> FALSE, throws |-> FALSE, dispatched |-> TRUE])
          @@ (".submit-button" :> [visible |-> TRUE, throws |-> TRUE, dispatched |-> FALSE])
          @@ ("#submit" :> [visible |-> TRUE, throws |-> FALSE, dispatched |-> TRUE]),
      ("button[type=submit]" :> [visible |-> TRUE, throws |-> TRUE, dispatched |-> TRUE])
          @@ ("#submit" :> [visible |-> TRUE, throws |-> FALSE, dispatched |-> TRUE]),
      ("button[type=submit]" :> [visible |-> TRUE, throws |-> TRUE, dispatched |-> TRUE]) }

Pages ==
    { [elements |-> e, buttons |-> b, pressThrows |-> t] :
        e \in ElementLists, b \in ButtonChoices, t \in BOOLEAN }

\* the customFields argument: undefined, or a list of selector/value pairs
CustomFieldChoices ==
    { [defined |-> FALSE, fields |-> << >>],
      [defined |-> TRUE, fields |-> << >>],
      [defined |-> TRUE,
       fields |-> << [selector |-> ById(<<"pw">>), value |-> "secret"] >>],
      [defined |-> TRUE,
       fields |-> << [selector |-> ByName(<<"email">>), value |-> "me@a.test"],
                     [selector |-> ById(<<"missing">>), value |-> "v"],
                     [selector |-> NthOfType("input", 2), value |-> "second"] >>],
      [defined |-> TRUE,
       fields |-> << [selector |-> ByName(<<"agree">>), value |-> "true"],
                     [selector |-> ByName(<<"country">>), value |-> "FR"] >>] }

InitForm ==
    /\ CrawlIdle
    /\ nIn = << >>
    /\ nOut = << >>
    /\ cap = << >>
    /\ gen = << >>
    /\ \E page \in Pages, customFields \in CustomFieldChoices :
           form = [page |-> page, customFields |-> customFields, pc |-> "start",
                   fieldsToFill |-> << >>, i |-> 0, actions |-> << >>,
                   generated |-> 0, submitted |-> "none", result |-> "none",
                   failed |-> {}, faults |-> 0]

\* mutant of StartFilling: the length test of lines 119-122 is left out
StartFilling_NoCheck(fields, calls) ==
    form' = [form EXCEPT !.fieldsToFill = fields,
                         !.generated = calls,
                         !.i = 1,
                         !.pc = "fill",
                         !.result = "none"]

\* lines 117-124 with the chosen list
StartFilling(fields, calls) ==
    form' = [form EXCEPT !.fieldsToFill = fields,
                         !.generated = calls,
                         !.i = 1,
                         !.pc = IF Len(fields) = 0 THEN "done" ELSE "fill",
                         !.result = IF Len(fields) = 0 THEN "false" ELSE "none"]

\* line 117: the custom fields are used
UseCustomFields ==
    /\ pc = "idle"
    /\ form # << >>
    /\ form.pc = "start"
    /\ IsProvided(form.customFields)
    /\ StartFilling(form.customFields.fields, 0)
    /\ UNCHANGED <<nIn, nOut, gen, cap, crawlVars>>

\* lines 117, 174-248: generateDefaultFields, one generateValueForField call
\* for each control of the page
UseDefaultFields ==
    /\ pc = "idle"
    /\ form # << >>
    /\ form.pc = "start"
    /\ ~IsProvided(form.customFields)
    /\ StartFilling(generateDefaultFields(form.page), Len(form.page.elements))
    /\ UNCHANGED <<nIn, nOut, gen, cap, crawlVars>>

\* lines 117, 243-245: page.evaluate throws inside generateDefaultFields
DefaultFieldsFail ==
    /\ pc = "idle"
    /\ form # << >>
    /\ form.pc = "start"
    /\ ~IsProvided(form.customFields)
    /\ form.faults < MaxFaults
    /\ StartFilling(<< >>, 0)
    /\ UNCHANGED <<nIn, nOut, gen, cap, crawlVars>>

\* lines 127-148: one iteration of the loop over fieldsToFill
FillField ==
    /\ pc = "idle"
    /\ form # << >>
    /\ form.pc = "fill"
    /\ form.i <= Len(form.fieldsToFill)
    /\ LET field == form.fieldsToFill[form.i] IN
       form' = [form EXCEPT
                  !.i = form.i + 1,
                  !.actions = IF Query(form.page, field.selector) = 0 THEN form.actions
                              ELSE form.actions \o FillAction(form.page, field, form.i)]
    /\ UNCHANGED <<nIn, nOut, gen, cap, crawlVars>>

\* mutant of FillFieldFail: the failure of one field ends the call, as if the
\* try of lines 128-151 were missing and the catch of lines 165-168 took over
FillFieldFail_Abort ==
    /\ pc = "idle"
    /\ form # << >>
    /\ form.pc = "fill"
    /\ form.i <= Len(form.fieldsToFill)
    /\ form.faults < MaxFaults
    /\ form' = [form EXCEPT !.failed = @ \cup {form.i}, !.faults = form.faults + 1,
                            !.pc = "done", !.result = "false"]
    /\ UNCHANGED <<nIn, nOut, gen, cap, crawlVars>>

\* lines 149-151: an operation on the element throws, the field is left out
FillFieldFail ==
    /\ pc = "idle"
    /\ form # << >>
    /\ form.pc = "fill"
    /\ form.i <= Len(form.fieldsToFill)
    /\ form.faults < MaxFaults
    /\ form' = [form EXCEPT !.i = form.i + 1, !.failed = @ \cup {form.i},
                            !.faults = form.faults + 1]
    /\ UNCHANGED <<nIn, nOut, gen, cap, crawlVars>>

\* lines 154-164: submitForm and the return value
Submit ==
    /\ pc = "idle"
    /\ form # << >>
    /\ form.pc = "fill"
    /\ form.i > Len(form.fieldsToFill)
    /\ form' = [form EXCEPT
                  !.actions = form.actions \o submitForm(form.page).actions,
                  !.submitted = IF submitForm(form.page).returned THEN "true" ELSE "false",
                  !.pc = "done",
                  !.result = IF submitForm(form.page).returned THEN "true" ELSE "false"]
    /\ UNCHANGED <<nIn, nOut, gen, cap, crawlVars>>

\* lines 157-168: the wait after the submission throws, the catch returns false
SubmitWaitFail ==
    /\ pc = "idle"
    /\ form # << >>
    /\ form.pc = "fill"
    /\ form.i > Len(form.fieldsToFill)
    /\ submitForm(form.page).returned
    /\ form.faults < MaxFaults
    /\ form' = [form EXCEPT
                  !.actions = form.actions \o submitForm(form.page).actions,
                  !.submitted = IF submitForm(form.page).returned THEN "true" ELSE "false",
                  !.pc = "done",
                  !.result = "false",
                  !.faults = form.faults + 1]
    /\ UNCHANGED <<nIn, nOut, gen, cap, crawlVars>>

NextForm ==
    \/ UseCustomFields
    \/ UseDefaultFields
    \/ DefaultFieldsFail
    \/ FillField
    \/ FillFieldFail
    \/ Submit
    \/ SubmitWaitFail

SpecForm == InitForm /\ [][NextForm]_vars

-----------------------------------------------------------------------------
(* main (index.ts 30-270), getCrawlConfig (config.ts 77-121) and
   captureScreenshots (index.ts 580-836) *)

MaxUrls == 2
MaxCaptureFaults == 3

\* config.ts 77-121: enabled = isCrawlModeEnabled(),
\* autoFillForms = !args.includes("--no-auto-fill-forms")
getCrawlConfig(args) ==
    [enabled |-> args.crawl, autoFillForms |-> ~args.noAutoFillForms]

\* index.ts 252: crawl: crawlConfig.enabled ? crawlConfig : undefined
ConfigCrawl(args) ==
    IF getCrawlConfig(args).enabled
    THEN [defined |-> TRUE, autoFillForms |-> getCrawlConfig(args).autoFillForms]
    ELSE [defined |-> FALSE]

\* index.ts 672: config.crawl?.autoFillForms !== false
AutoFillAllowed(crawl) == IF crawl.defined THEN crawl.autoFillForms # FALSE ELSE TRUE

\* the pages captured: a form on /blog that leads to /y, a form on /x that stays
CaptureSite ==
    [links |-> << >>, forms |-> (BlogUrl :> YUrl) @@ (XUrl :> XUrl)]

CaptureUrls ==
    {RootUrl, XUrl, XUrl \o <<"/">>, YUrl, BlogUrl, BlogUrl \o <<"#", "f">>}

UrlLists == UNION { [1..n -> CaptureUrls] : n \in 1..MaxUrls }

ArgChoices == [crawl : BOOLEAN, noAutoFillForms : BOOLEAN]

\* index.ts 624-640: the three navigation attempts of one URL
CaptureWaitUntil == <<"networkidle", "load", "domcontentloaded">>

DefaultTimeout == 60000
LastAttemptCap == 30000

Min(a, b) == IF a < b THEN a ELSE b

CaptureTimeout == <<DefaultTimeout, DefaultTimeout, Min(DefaultTimeout, LastAttemptCap)>>

InitCapture ==
    /\ CrawlIdle
    /\ nIn = << >>
    /\ nOut = << >>
    /\ gen = << >>
    /\ form = << >>
    /\ \E args \in ArgChoices, urls \in UrlLists :
           cap = [args |-> args, crawl |-> ConfigCrawl(args), urls |-> urls,
                  site |-> CaptureSite, i |-> 1, pc |-> "loop", capturedUrls |-> {},
                  results |-> << >>, navAttempt |-> 0, navLog |-> << >>,
                  pageUrl |-> << >>, filled |-> << >>, submitted |-> << >>,
                  failed |-> {}, skipped |-> {}, closed |-> FALSE,
                  returned |-> FALSE, faults |-> 0, log |-> "start",
                  hasForms |-> "none"]

CapUrl == cap.urls[cap.i]

\* index.ts 771-777, 794-800: the entry of a page captured without form handling
PlainResult(url) ==
    [url |-> url, filename |-> "plain", hasForm |-> FALSE,
     beforeFormFilename |-> "none", afterFormFilename |-> "none"]

\* mutant of BeforeResult: the entry of a page without form
BeforeResult_Plain(url) ==
    [url |-> url, filename |-> "plain", hasForm |-> FALSE,
     beforeFormFilename |-> "none", afterFormFilename |-> "none"]

\* index.ts 749-756: the entry of a page whose form was not submitted
BeforeResult(url) ==
    [url |-> url, filename |-> "before", hasForm |-> TRUE,
     beforeFormFilename |-> "before", afterFormFilename |-> "none"]

\* index.ts 706-739: the entry of a page whose form was submitted
AfterResult(url, location) ==
    [url |-> IF normalizeUrl(location) # normalizeUrl(url)
             THEN normalizeUrl(location) ELSE url,
     filename |-> "after", hasForm |-> TRUE,
     beforeFormFilename |-> "before", afterFormFilename |-> "after"]

\* index.ts 605-613: a URL whose key is already captured is skipped
CapSkipDuplicate ==
    /\ cap # << >>
    /\ cap.pc = "loop"
    /\ cap.i <= Len(cap.urls)
    /\ normalizeUrl(CapUrl) \in cap.capturedUrls
    /\ cap' = [cap EXCEPT !.i = @ + 1, !.skipped = @ \cup {cap.i},
                          !.log = "duplicate"]
    /\ UNCHANGED <<nIn, nOut, gen, form, crawlVars>>

\* index.ts 605-616: the key is recorded before the capture starts
CapBegin ==
    /\ cap # << >>
    /\ cap.pc = "loop"
    /\ cap.i <= Len(cap.urls)
    /\ normalizeUrl(CapUrl) \notin cap.capturedUrls
    /\ cap' = [cap EXCEPT !.capturedUrls = @ \cup {normalizeUrl(CapUrl)},
                          !.navAttempt = 0, !.pc = "goto", !.hasForms = "none"]
    /\ UNCHANGED <<nIn, nOut, gen, form, crawlVars>>

CapNavEntry(ok) ==
    [url |-> CapUrl, index |-> cap.i, waitUntil |-> CaptureWaitUntil[cap.navAttempt + 1],
     timeout |-> CaptureTimeout[cap.navAttempt + 1], ok |-> ok]

\* index.ts 622-643: a page.goto that resolves
CapGotoOk ==
    /\ cap # << >>
    /\ cap.pc = "goto"
    /\ cap' = [cap EXCEPT !.navLog = Append(@, CapNavEntry(TRUE)),
                          !.navAttempt = @ + 1,
                          !.pageUrl = UrlToString(ParseUrl(CapUrl)),
                          !.pc = "capture"]
    /\ UNCHANGED <<nIn, nOut, gen, form, crawlVars>>

\* mutant of CapGotoFail: the third rejection leaves the loop
CapGotoFail_Abort ==
    /\ cap # << >>
    /\ cap.pc = "goto"
    /\ cap.faults < MaxCaptureFaults
    /\ cap' = [cap EXCEPT !.navLog = Append(@, CapNavEntry(FALSE)),
                          !.navAttempt = @ + 1,
                          !.faults = @ + 1,
                          !.pc = IF cap.navAttempt + 1 = Len(CaptureWaitUntil)
                                 THEN "loop" ELSE "goto",
                          !.i = IF cap.navAttempt + 1 = Len(CaptureWaitUntil)
                                THEN Len(cap.urls) + 1 ELSE @,
                          !.failed = IF cap.navAttempt + 1 = Len(CaptureWaitUntil)
                                     THEN @ \cup {cap.i} ELSE @,
                          !.log = IF cap.navAttempt + 1 = Len(CaptureWaitUntil)
                                  THEN "error" ELSE @]
    /\ UNCHANGED <<nIn, nOut, gen, form, crawlVars>>

\* index.ts 627-643, 804-828: a page.goto that rejects; the third rejection
\* reaches the outer catch and the loop goes on with the next URL
CapGotoFail ==
    /\ cap # << >>
    /\ cap.pc = "goto"
    /\ cap.faults < MaxCaptureFaults
    /\ cap' = [cap EXCEPT !.navLog = Append(@, CapNavEntry(FALSE)),
                          !.navAttempt = @ + 1,
                          !.faults = @ + 1,
                          !.pc = IF cap.navAttempt + 1 = Len(CaptureWaitUntil)
                                 THEN "loop" ELSE "goto",
                          !.i = IF cap.navAttempt + 1 = Len(CaptureWaitUntil)
                                THEN @ + 1 ELSE @,
                          !.failed = IF cap.navAttempt + 1 = Len(CaptureWaitUntil)
                                     THEN @ \cup {cap.i} ELSE @,
                          !.log = IF cap.navAttempt + 1 = Len(CaptureWaitUntil)
                                  THEN "error" ELSE @]
    /\ UNCHANGED <<nIn, nOut, gen, form, crawlVars>>

\* index.ts 670-672: hasForms && config.crawl?.autoFillForms !== false
FormBranch ==
    detectForms(cap.site, cap.pageUrl, TRUE) = "true" /\ AutoFillAllowed(cap.crawl)

CapDone(entry, message, detected) ==
    [cap EXCEPT !.results = Append(@, entry), !.i = @ + 1, !.pc = "loop",
                !.log = message, !.hasForms = detected]

\* index.ts 657-661, 804-828: the wait, the title or the fallback screenshot
\* rejects; the outer catch logs it and nothing is pushed
CapCaptureRaises ==
    /\ cap # << >>
    /\ cap.pc = "capture"
    /\ cap.faults < MaxCaptureFaults
    /\ cap' = [cap EXCEPT !.faults = @ + 1, !.failed = @ \cup {cap.i},
                          !.i = @ + 1, !.pc = "loop", !.log = "error"]
    /\ UNCHANGED <<nIn, nOut, gen, form, crawlVars>>

\* index.ts 759-780: no form on the page, or auto-fill switched off
CapPlain ==
    /\ cap # << >>
    /\ cap.pc = "capture"
    /\ ~FormBranch
    /\ cap' = CapDone(PlainResult(CapUrl), "captured",
                      detectForms(cap.site, cap.pageUrl, TRUE))
    /\ UNCHANGED <<nIn, nOut, gen, form, crawlVars>>

\* part_001 93-104, index.ts 670, 759-780: detectForms cannot evaluate the page
\* and answers false
CapDetectFails ==
    /\ cap # << >>
    /\ cap.pc = "capture"
    /\ HasForm(cap.site, cap.pageUrl)
    /\ cap.faults < MaxCaptureFaults
    /\ cap' = [CapDone(PlainResult(CapUrl), "captured",
                       detectForms(cap.site, cap.pageUrl, FALSE)) EXCEPT
                  !.faults = @ + 1]
    /\ UNCHANGED <<nIn, nOut, gen, form, crawlVars>>

\* index.ts 692-695, 781-800: the before-form screenshot rejects
CapBeforeShotFails ==
    /\ cap # << >>
    /\ cap.pc = "capture"
    /\ FormBranch
    /\ cap.faults < MaxCaptureFaults
    /\ cap' = [CapDone(PlainResult(CapUrl), "form-handling-error", "true") EXCEPT
                  !.faults = @ + 1]
    /\ UNCHANGED <<nIn, nOut, gen, form, crawlVars>>

\* index.ts 699, 747-758: autoFillForm answers false
CapFormNotSubmitted ==
    /\ cap # << >>
    /\ cap.pc = "capture"
    /\ FormBranch
    /\ cap' = [CapDone(BeforeResult(CapUrl), "form-not-submitted", "true") EXCEPT
                  !.filled = Append(@, CapUrl)]
    /\ UNCHANGED <<nIn, nOut, gen, form, crawlVars>>

\* part_001 155-168, index.ts 699, 747-758: the submission is fired, the wait
\* inside autoFillForm rejects and autoFillForm answers false
CapSubmitWaitFails ==
    /\ cap # << >>
    /\ cap.pc = "capture"
    /\ FormBranch
    /\ cap.faults < MaxCaptureFaults
    /\ cap' = [CapDone(BeforeResult(CapUrl), "form-not-submitted", "true") EXCEPT
                  !.filled = Append(@, CapUrl),
                  !.submitted = Append(@, CapUrl),
                  !.pageUrl = cap.site.forms[PageKey(cap.pageUrl)],
                  !.faults = @ + 1]
    /\ UNCHANGED <<nIn, nOut, gen, form, crawlVars>>

\* index.ts 699-746: autoFillForm answers true and the page is at the form's target
CapFormSubmitted ==
    /\ cap # << >>
    /\ cap.pc = "capture"
    /\ FormBranch
    /\ LET location == cap.site.forms[PageKey(cap.pageUrl)] IN
       cap' = [CapDone(AfterResult(CapUrl, location), "form-action", "true") EXCEPT
                  !.filled = Append(@, CapUrl),
                  !.submitted = Append(@, CapUrl),
                  !.pageUrl = location,
                  !.capturedUrls = IF normalizeUrl(location) # normalizeUrl(CapUrl)
                                   THEN @ \cup {normalizeUrl(location)} ELSE @]
    /\ UNCHANGED <<nIn, nOut, gen, form, crawlVars>>

\* index.ts 699-725, 781-800: the form is submitted and the after-form
\* screenshot rejects
CapAfterShotFails ==
    /\ cap # << >>
    /\ cap.pc = "capture"
    /\ FormBranch
    /\ cap.faults < MaxCaptureFaults
    /\ cap' = [CapDone(PlainResult(CapUrl), "form-handling-error", "true") EXCEPT
                  !.filled = Append(@, CapUrl),
                  !.submitted = Append(@, CapUrl),
                  !.pageUrl = cap.site.forms[PageKey(cap.pageUrl)],
                  !.faults = @ + 1]
    /\ UNCHANGED <<nIn, nOut, gen, form, crawlVars>>

\* index.ts 830-835: the loop is over, the context and the browser are closed
CapClose ==
    /\ cap # << >>
    /\ cap.pc = "loop"
    /\ cap.i > Len(cap.urls)
    /\ cap' = [cap EXCEPT !.closed = TRUE, !.returned = TRUE, !.pc = "done"]
    /\ UNCHANGED <<nIn, nOut, gen, form, crawlVars>>

NextCapture ==
    \/ CapSkipDuplicate
    \/ CapBegin
    \/ CapGotoOk
    \/ CapGotoFail
    \/ CapCaptureRaises
    \/ CapPlain
    \/ CapDetectFails
    \/ CapBeforeShotFails
    \/ CapFormNotSubmitted
    \/ CapSubmitWaitFails
    \/ CapFormSubmitted
    \/ CapAfterShotFails
    \/ CapClose

SpecCapture == InitCapture /\ [][NextCapture]_vars

-----------------------------------------------------------------------------
(* Properties *)

\* C1: in every state of crawlWebsite, and in the result it returns, the number
\* of discovered pages is at most maxPages.
C1_DiscoveredAtMostMaxPages ==
    /\ Len(discovered) <= options.maxPages
    /\ result.returned =>
          /\ Len(result.urls) <= options.maxPages
          /\ result.discovered <= options.maxPages

\* the crawl returned with maxPages pages while seeded routes or links were
\* still waiting in the frontier
C1_Witness ==
    /\ result.returned
    /\ Len(discovered) = options.maxPages
    /\ Len(toVisit) > 0
    /\ Len(options.routesFromCode) > 0

\* C2: no two entries of the returned URL list normalize to the same key.
C2_ReturnedKeysUnique ==
    result.returned =>
        \A i, j \in 1..Len(result.urls) :
            i # j => normalizeUrl(result.urls[i]) # normalizeUrl(result.urls[j])

\* C3: normalizeUrl(normalizeUrl(u)) = normalizeUrl(u) for every URL string u.
C3_NormalizeIdempotent ==
    Len(nOut) >= 2 => nOut[2] = nOut[1]

\* C4: no URL that contains an exclude pattern is ever in discovered.
C4_NoExcludedDiscovered ==
    \A i \in 1..Len(discovered) :
        \A k \in 1..Len(options.excludePatterns) :
            ~Includes(discovered[i], options.excludePatterns[k])

\* a dequeued URL that contains an exclude pattern was turned away after
\* other pages had been committed
C4_Witness ==
    /\ log = "skip-pattern"
    /\ Len(discovered) > 0
    /\ \E k \in 1..Len(options.excludePatterns) :
           Includes(normalizeUrl(cur.url), options.excludePatterns[k])

\* C5: with a non-empty includePatterns every URL in discovered contains an
\* include pattern; a start URL that matches none is never committed.
C5_DiscoveredMatchInclude ==
    Len(options.includePatterns) > 0 =>
        /\ \A i \in 1..Len(discovered) :
               \E k \in 1..Len(options.includePatterns) :
                   Includes(discovered[i], options.includePatterns[k])
        /\ (\A k \in 1..Len(options.includePatterns) :
                ~Includes(normalizeUrl(startUrl), options.includePatterns[k]))
           => \A i \in 1..Len(discovered) : discovered[i] # normalizeUrl(startUrl)

\* a page was committed under include patterns and a later item that matches
\* no include pattern and no exclude pattern was turned away
C5_Witness ==
    /\ Len(options.includePatterns) > 0
    /\ Len(discovered) > 0
    /\ log = "skip-pattern"
    /\ \A k \in 1..Len(options.excludePatterns) :
           ~Includes(normalizeUrl(cur.url), options.excludePatterns[k])

\* the admit decision as the three ordered checks of spec section 4.2
SameHostname(url1, url2) ==
    \E h \in Hosts :
        /\ ParseUrl(url1).ok /\ ParseUrl(url1).hostname = h
        /\ ParseUrl(url2).ok /\ ParseUrl(url2).hostname = h

AdmitRef(url) ==
    IF options.sameDomainOnly /\ ~SameHostname(url, startUrl) THEN "skip-domain"
    ELSE IF \E k \in 1..Len(options.excludePatterns) :
                Includes(url, options.excludePatterns[k]) THEN "skip-pattern"
    ELSE IF /\ Len(options.includePatterns) > 0
            /\ \A k \in 1..Len(options.includePatterns) :
                   ~Includes(url, options.includePatterns[k]) THEN "skip-pattern"
    ELSE "commit"

AdmittedLink(link) == link \notin visited /\ AdmitRef(link) = "commit"

\* C6: an item that is neither visited nor too deep is committed iff the three
\* ordered checks (hostname, exclude patterns, include patterns) admit it, the
\* first failing check is the one reported, and the links of an expanded page
\* are enqueued by the same decision.
C6_AdmitDecision ==
    [][ /\ ( /\ pc = "loop"
             /\ LoopCond
             /\ normalizeUrl(Head(toVisit).url) \notin visited
             /\ Head(toVisit).depth <= options.maxDepth )
           => LET n == normalizeUrl(Head(toVisit).url) IN
              IF AdmitRef(n) = "commit"
              THEN discovered' = Append(discovered, n)
              ELSE discovered' = discovered /\ log' = AdmitRef(n)
        /\ ( pc = "extract" /\ log' = "extracted" )
           => LET sel == SelectSeq(extractLinks(site, pageUrl, cur.url), AdmittedLink)
              IN  toVisit' = toVisit \o
                      [i \in 1..Len(sel) |-> [url |-> sel[i], depth |-> cur.depth + 1]]
      ]_vars

\* an item on another hostname that also contains an exclude pattern was
\* turned away by the hostname check
C6_Witness ==
    /\ log = "skip-domain"
    /\ \E k \in 1..Len(options.excludePatterns) :
           Includes(normalizeUrl(cur.url), options.excludePatterns[k])

\* C7: start https://a.test/, maxDepth 1, maxPages 10, sameDomainOnly, a seed
\* page that loads and links to /x and https://other.test/y: the crawl returns
\* exactly [https://a.test/, https://a.test/x].
C7_Scenario ==
    ( /\ startUrl = RootUrl
      /\ site = ScenarioSite
      /\ options = ScenarioOptions
      /\ faults = 0
      /\ result.returned )
    => /\ result.urls = <<RootUrl, XUrl>>
       /\ discovered = <<RootUrl, XUrl>>

C7_Witness ==
    /\ startUrl = RootUrl
    /\ site = ScenarioSite
    /\ options = ScenarioOptions
    /\ faults = 0
    /\ result.returned
    /\ Len(navLog) = 1

\* C8: the frontier is first-in first-out: commit depths never decrease, the
\* frontier is ordered by depth, and while an item of some depth is committed
\* or expanded no shallower item waits in the frontier.
C8_BreadthFirst ==
    /\ \A i, j \in 1..Len(depths) : i <= j => depths[i] <= depths[j]
    /\ \A i, j \in 1..Len(toVisit) : i <= j => toVisit[i].depth <= toVisit[j].depth
    /\ depths # << >> =>
           \A k \in 1..Len(toVisit) : toVisit[k].depth >= depths[Len(depths)]
    /\ pc \in {"goto", "form", "extract"} =>
           \A k \in 1..Len(toVisit) : toVisit[k].depth >= cur.depth

\* with seed routes, a seeded page and pages of two further depths were committed
C8_Witness ==
    /\ Len(options.routesFromCode) > 0
    /\ Len(depths) >= 4
    /\ depths[2] = 0
    /\ depths[Len(depths)] = 2

\* C9: an item committed at depth = maxDepth is appended to discovered, the
\* browser is not navigated for it and it adds nothing to the frontier; with
\* maxDepth = 0 there is no navigation at all.
C9_LeafNotExpanded ==
    /\ [] /\ \A i \in 1..Len(navLog) : navLog[i].depth < options.maxDepth
          /\ pc \in {"goto", "form", "extract"} => cur.depth < options.maxDepth
          /\ options.maxDepth = 0 => navLog = << >>
    /\ [][ ( /\ pc = "loop"
             /\ LoopCond
             /\ Head(toVisit).depth = options.maxDepth
             /\ discovered' # discovered )
           => /\ discovered' = Append(discovered, normalizeUrl(Head(toVisit).url))
              /\ toVisit' = Tail(toVisit)
              /\ navLog' = navLog
              /\ pageUrl' = pageUrl
              /\ pc' \in {"loop", "done"}
         ]_vars

\* after pages were expanded, a page was committed at maxDepth and left alone
C9_Witness ==
    /\ log = "leaf"
    /\ cur.depth = options.maxDepth
    /\ options.maxDepth >= 1
    /\ navLog # << >>
    /\ discovered[Len(discovered)] = normalizeUrl(cur.url)

\* C10: when crawlWebsite has ended, the frontier is empty or discovered holds
\* maxPages entries; nothing else ends the traversal.
C10_EndsByExhaustionOrMaxPages ==
    pc \in {"done", "thrown"} =>
        \/ toVisit = << >>
        \/ Len(discovered) = options.maxPages

\* C11: for every start URL, seed route list and page behaviour crawlWebsite
\* returns a CrawlResult; it never ends by throwing to its caller.
C11_NeverThrows ==
    pc # "thrown"

\* the last page.goto attempt for the item at position i of navLog rejected
NavGivenUp(i) ==
    /\ ~navLog[i].ok
    /\ navLog[i].waitUntil = WaitUntil[Len(WaitUntil)]

\* C12: when every navigation attempt for a frontier item fails, the item
\* stays in visited and in discovered, nothing is extracted or enqueued from
\* it, no later navigation goes to it, and the loop goes on with the next item.
C12_NavigationFailureSkipsItem ==
    /\ [] \A i \in 1..Len(navLog) :
             NavGivenUp(i) =>
                 /\ normalizeUrl(navLog[i].url) \in visited
                 /\ \E k \in 1..Len(discovered) :
                        discovered[k] = normalizeUrl(navLog[i].url)
                 /\ \A j \in (i + 1)..Len(navLog) :
                        normalizeUrl(navLog[j].url) # normalizeUrl(navLog[i].url)
    /\ [][ ( pc = "goto" /\ log' = "nav-failed" )
           => /\ visited' = visited
              /\ discovered' = discovered
              /\ toVisit' = toVisit
              /\ pageUrl' = pageUrl
              /\ pc' = "loop"
         ]_vars

\* a well-formed item whose navigation was given up was dequeued a second
\* time and skipped as visited
C12_Witness ==
    /\ log = "skip-visited"
    /\ ParseUrl(cur.url).ok
    /\ \E i \in 1..Len(navLog) :
           /\ NavGivenUp(i)
           /\ normalizeUrl(navLog[i].url) = normalizeUrl(cur.url)

\* C13: the navigation to a frontier item tries three wait conditions in
\* order, strict, then looser, then loosest, each attempt with a smaller
\* timeout than the one before, and the item is given up only after all three
\* attempts have failed.
C13_ThreeStepTimeoutChain ==
    /\ \A i \in 1..(Len(navLog) - 1) :
           ( navLog[i].url = navLog[i + 1].url /\ ~navLog[i].ok )
           => /\ Strictness(navLog[i].waitUntil) > Strictness(navLog[i + 1].waitUntil)
              /\ navLog[i].timeout > navLog[i + 1].timeout
    /\ log = "nav-failed" =>
           /\ Len(navLog) >= 3
           /\ \A k \in 0..2 :
                  /\ navLog[Len(navLog) - k].url = cur.url
                  /\ ~navLog[Len(navLog) - k].ok

\* C14: after a form submission has moved the page from U1 to U2,
\* normalizeUrl(U2) is in visited, and from then on no item with that key is
\* added to the frontier and no entry with that key is appended to discovered,
\* even if a later page links to U2.
C14_PostFormUrlRegistered ==
    /\ [] \A u \in formUrls : normalizeUrl(u) \in visited
    /\ [][ \A u \in formUrls :
             /\ \A k \in (Len(toVisit) + 1)..Len(toVisit') :
                    normalizeUrl(toVisit'[k].url) # normalizeUrl(u)
             /\ discovered' # discovered =>
                    discovered'[Len(discovered')] # normalizeUrl(u)
         ]_vars

\* well-formed URLs without fragment whose path is not the root and has no
\* trailing slash
BaseUrls ==
    { o \o p : o \in {A, O},
               p \in { <<"/", "x">>, <<"/", "y">>, <<"/", "blog">>, <<"/", "admin">>,
                       <<"/", "blog", "/", "x">>, <<"/", "blog", "/", "admin">> } }

\* h is u, u with a single trailing slash, or one of the two with a fragment
InFamily(h, u) ==
    /\ ParseUrl(h).ok
    /\ UrlToString(ClearHash(ParseUrl(h))) \in {u, u \o <<"/">>}

\* h is an origin with the root path or without a path, with or without fragment
IsRootUrl(h) ==
    /\ ParseUrl(h).ok
    /\ UrlToString(ClearHash(ParseUrl(h))) = Origin(ParseUrl(h)) \o <<"/">>

\* the .href of the anchors of the page the browser is on
PageHrefs == AnchorHrefs(Anchors(site, pageUrl), pageUrl)

\* C15: URLs that differ only by a fragment or by a single trailing slash on a
\* non-root path have the same key: every link of an expanded page that is u,
\* u/, u#f or u/#f enters the frontier as u, whose key is u, such links add at
\* most one item per page, and discovered never holds a key twice; a link to the
\* root keeps the slash of the root path.
C15_OneEntryPerFamily ==
    /\ [] /\ \A i, j \in 1..Len(discovered) : i # j => discovered[i] # discovered[j]
          /\ \A i \in 1..Len(discovered) : discovered[i] \notin {A, O}
          /\ pc = "extract" =>
                 \A n \in 1..Len(PageHrefs) :
                     /\ \A u \in BaseUrls :
                            InFamily(PageHrefs[n], u) =>
                                /\ ResolveLinks(<<PageHrefs[n]>>, cur.url) = <<u>>
                                /\ normalizeUrl(u) = u
                     /\ IsRootUrl(PageHrefs[n]) =>
                            ResolveLinks(<<PageHrefs[n]>>, cur.url)
                                = <<Origin(ParseUrl(PageHrefs[n])) \o <<"/">> >>
    /\ [][ ( pc = "extract" /\ log' = "extracted" )
           => \A u \in BaseUrls :
                  Cardinality({ k \in (Len(toVisit) + 1)..Len(toVisit') :
                                   toVisit'[k].url = u }) <= 1
         ]_vars

\* the crawl of the site whose pages link to /x, /x#f and /x/ has ended, both
\* linking pages were expanded, and discovered holds https://a.test/x once
C15_Witness ==
    /\ site = SlashSite
    /\ result.returned
    /\ \E i, j \in 1..Len(navLog) :
           /\ navLog[i].ok /\ PageKey(navLog[i].url) = RootUrl
           /\ navLog[j].ok /\ PageKey(navLog[j].url) = XUrl
    /\ Cardinality({ i \in 1..Len(discovered) : discovered[i] = XUrl }) = 1
    /\ \A i \in 1..Len(discovered) :
           discovered[i] \notin { XUrl \o <<"/">>, XUrl \o <<"#", "f">> }

\* C16: a malformed URL found on a page (an item of depth 1 or more that
\* new URL rejects) is never in the frontier and never in discovered, whatever
\* the configuration, sameDomainOnly = false included.
C16_MalformedNeverEnqueued ==
    /\ \A k \in 1..Len(toVisit) :
           toVisit[k].depth >= 1 => ParseUrl(toVisit[k].url).ok
    /\ \A i \in 1..Len(discovered) :
           depths[i] >= 1 => ParseUrl(discovered[i]).ok

\* C17: when link extraction fails on a page, extractLinks returns the empty
\* list and nothing is thrown, the page stays in discovered and in visited,
\* the frontier is left as it was, and the loop goes on with the next item.
C17_ExtractionFailureAddsNothing ==
    [][ ( pc = "extract" /\ log' = "extract-failed" )
        => /\ toVisit' = toVisit
           /\ discovered' = discovered
           /\ visited' = visited
           /\ \E i \in 1..Len(discovered') : discovered'[i] = normalizeUrl(cur.url)
           /\ normalizeUrl(cur.url) \in visited'
           /\ pc' = "loop"
      ]_vars

\* the extraction failed on a page that has links, reached by a form
\* submission, while other items wait in the frontier
C17_Witness ==
    /\ log = "extract-failed"
    /\ pc = "loop"
    /\ Anchors(site, pageUrl) # << >>
    /\ pageUrl \in formUrls
    /\ Len(toVisit) > 0
    /\ PagesLeft(discovered, options)

\* keyword k occurs in the lower-cased name, label or placeholder
HasKeyword(info, k) ==
    \/ Includes(toLowerCase(info.name), <<k>>)
    \/ Includes(toLowerCase(info.label), <<k>>)
    \/ Includes(toLowerCase(info.placeholder), <<k>>)

\* the rule table of spec section 4.4, first match wins
RuleTable(info) ==
    IF info.type = "password" THEN "TestPassword123!"
    ELSE IF info.type = "email" \/ HasKeyword(info, "email") THEN "test@example.com"
    ELSE IF HasKeyword(info, "name") THEN "John Doe"
    ELSE IF HasKeyword(info, "phone") \/ HasKeyword(info, "tel") THEN "+1234567890"
    ELSE IF info.type = "number" \/ HasKeyword(info, "age") THEN "25"
    ELSE IF HasKeyword(info, "company") \/ HasKeyword(info, "organization")
    THEN "Test Company"
    ELSE IF HasKeyword(info, "address") THEN "123 Test Street"
    ELSE IF HasKeyword(info, "city") THEN "Test City"
    ELSE IF HasKeyword(info, "country") THEN "United States"
    ELSE IF info.type \in {"text", "textarea"} THEN "Test Value"
    ELSE ""

\* C18: for every field metadata record the generated value is the value of
\* the first-match-wins rule table in the order password, email, name, phone
\* or tel, number or age, company or organization, address, city, country,
\* generic text, no value, each keyword looked up in the lower-cased name,
\* label and placeholder.
C18_ValueEqualsRuleTable ==
    ( gen # << >> /\ gen.applied ) => gen.value = RuleTable(gen.info)

\* C19: a field whose declared type is password gets the fixed
\* strong-password value whatever its name, label and placeholder contain.
C19_PasswordTypeGetsPassword ==
    ( gen # << >> /\ gen.applied /\ gen.info.type = "password" )
    => gen.value = "TestPassword123!"

\* C20: when a custom field list is supplied, generateValueForField is never
\* called, the list that is filled is the supplied list, and every fill
\* instruction carries the selector and the value of a supplied pair, whatever
\* controls the page has.
C20_CustomFieldsOverride ==
    ( form # << >> /\ form.customFields.defined ) =>
        /\ form.generated = 0
        /\ form.pc # "start" => form.fieldsToFill = form.customFields.fields
        /\ \A a \in 1..Len(form.actions) :
               form.actions[a].op \in {"fill", "selectOption", "check"} =>
                   /\ form.actions[a].field \in 1..Len(form.customFields.fields)
                   /\ form.actions[a].selector
                          = form.customFields.fields[form.actions[a].field].selector
                   /\ form.actions[a].op # "check" =>
                          form.actions[a].value
                              = form.customFields.fields[form.actions[a].field].value

\* a custom list was used on a page for whose controls the generator has
\* values: one supplied pair was filled in, one found no element, and the
\* form was submitted
C20_Witness ==
    /\ form # << >>
    /\ form.customFields.defined
    /\ form.result = "true"
    /\ generateDefaultFields(form.page) # << >>
    /\ \E a \in 1..Len(form.actions) :
           form.actions[a].op = "fill" /\ form.actions[a].value = "me@a.test"
    /\ Len(form.actions) < Len(form.customFields.fields)

\* the submit triggers of the page that are present and visible and whose
\* click does not throw, as positions of submitSelectors
Clickable(page) ==
    { k \in 1..Len(submitSelectors) :
        /\ submitSelectors[k] \in DOMAIN page.buttons
        /\ page.buttons[submitSelectors[k]].visible
        /\ ~page.buttons[submitSelectors[k]].throws }

\* positions of the inputs and textareas of the page
InputPositions(page) ==
    { i \in 1..Len(page.elements) : page.elements[i].tag \in {"input", "textarea"} }

\* the clicks and key presses among the actions performed
Fired(actions) == SelectSeq(actions, LAMBDA a : a.op \in {"click", "press"})

\* C21: submitForm clicks the first submit trigger of its list that is
\* present and visible; only when no trigger was clicked it presses Enter, on
\* the last input or textarea of the page; it returns true iff a click or the
\* key press was fired.
C21_SubmitOrder ==
    ( form # << >> /\ form.submitted # "none" ) =>
        LET fired == Fired(form.actions) IN
        /\ (form.submitted = "true") = (fired # << >>)
        /\ Len(fired) <= 1
        /\ Clickable(form.page) # {} =>
               /\ Len(fired) = 1
               /\ fired[1].op = "click"
               /\ \E k \in Clickable(form.page) :
                      /\ fired[1].selector = submitSelectors[k]
                      /\ \A j \in Clickable(form.page) : k <= j
        /\ ( fired # << >> /\ fired[1].op = "press" ) =>
               /\ Clickable(form.page) = {}
               /\ fired[1].target \in InputPositions(form.page)
               /\ \A i \in InputPositions(form.page) : i <= fired[1].target

\* C22: with --no-auto-fill-forms on the command line (autoFillForms = false)
\* no form is filled and no form is submitted while the screenshots are
\* captured, in crawl mode and in manual URL mode alike.
C22_NoAutoFillNoFormAction ==
    cap.args.noAutoFillForms => cap.filled = << >> /\ cap.submitted = << >>


\* the seed routes resolved against the start URL and normalized, in list order
SeedCandidates ==
    [i \in 1..Len(options.routesFromCode) |->
        normalizeUrl(RouteUrl(options.routesFromCode[i], startUrl).url)]

OnStartHost(u) ==
    /\ ParseUrl(u).ok
    /\ ParseUrl(startUrl).ok
    /\ ParseUrl(u).hostname = ParseUrl(startUrl).hostname

SameHostRoutes == SelectSeq(Dedup(SeedCandidates), OnStartHost)

SeedFrontier ==
    << [url |-> normalizeUrl(startUrl), depth |-> 0] >>
    \o [i \in 1..Len(SameHostRoutes) |-> [url |-> SameHostRoutes[i], depth |-> 0]]

Dequeued == pc = "loop" /\ toVisit # << >> /\ toVisit' = Tail(toVisit)

C24_DetectFormsNeverRaises ==
    [][ (pc = "form" /\ log' = "detect-failed") =>
            /\ detectForms(site, pageUrl, FALSE) = "false"
            /\ pc' = "extract"
            /\ cur' = cur
            /\ pageUrl' = pageUrl
            /\ formUrls' = formUrls ]_vars

\* the detection failed on a page that shows a form
C24_Witness ==
    /\ log = "detect-failed"
    /\ pc = "extract"
    /\ HasForm(site, pageUrl)

\* C25: when a commit brings the length of discovered to maxPages the crawl
\* ends in that very step: the result is returned, the browser is not
\* navigated to the committed page, and once the crawl has ended nothing is
\* dequeued, committed or navigated to: the rest of the frontier is dropped.
C25_StopsAtMaxPages ==
    [][ /\ ( /\ pc = "loop"
             /\ discovered' # discovered
             /\ Len(discovered') = options.maxPages )
           => /\ pc' = "done"
              /\ result'.returned
              /\ navLog' = navLog
              /\ pageUrl' = pageUrl
        /\ pc = "done"
           => /\ toVisit' = toVisit
              /\ discovered' = discovered
              /\ visited' = visited
              /\ navLog' = navLog ]_vars

\* the crawl ended on a commit of a page that was not at maxDepth, while
\* items were still waiting in the frontier
C25_Witness ==
    /\ pc = "done"
    /\ log = "max-pages"
    /\ Len(discovered) = options.maxPages
    /\ cur.depth < options.maxDepth
    /\ Len(toVisit) >= 2
    /\ \A i \in 1..Len(navLog) : navLog[i].url # cur.url

\* the item at the head of the frontier is one the loop skips: its key is
\* visited, it lies deeper than maxDepth, or the filter rejects its key
SkippedHead ==
    LET n == normalizeUrl(Head(toVisit).url) IN
    \/ n \in visited
    \/ Head(toVisit).depth > options.maxDepth
    \/ AdmitRef(n) # "commit"

\* C26: dequeuing an item that is skipped (visited, deeper than maxDepth, or
\* rejected by the filter) only removes it from the frontier: visited and
\* discovered are unchanged, the browser is not navigated, nothing is added to
\* the frontier, no failure is counted and the loop goes on.
C26_SkipChangesNothing ==
    [][ (pc = "loop" /\ LoopCond /\ SkippedHead) =>
            /\ toVisit' = Tail(toVisit)
            /\ cur' = Head(toVisit)
            /\ visited' = visited
            /\ discovered' = discovered
            /\ depths' = depths
            /\ navLog' = navLog
            /\ pageUrl' = pageUrl
            /\ faults' = faults
            /\ result' = result
            /\ pc' = "loop"
            /\ log' \in {"skip-visited", "skip-depth", "skip-domain", "skip-pattern"}
      ]_vars

\* after pages were navigated to, a visited item was skipped while other
\* items were waiting behind it
C26_Witness ==
    /\ pc = "loop"
    /\ log = "skip-visited"
    /\ navLog # << >>
    /\ toVisit # << >>
    /\ normalizeUrl(cur.url) \in visited

\* the links extracted from the page the crawl is on, as a set
ExtractedLinks ==
    LET links == extractLinks(site, pageUrl, cur.url) IN
    { links[i] : i \in 1..Len(links) }

\* the items the step appended to the frontier
AddedItems == { toVisit'[i] : i \in (Len(toVisit) + 1)..Len(toVisit') }

\* C27: when the page of an item of depth d is expanded, the frontier keeps its
\* items and gains, behind them, exactly the extracted links that pass the
\* filter and are not in visited at that moment, each at depth d + 1; a link
\* that is rejected or visited adds nothing, and visited and discovered are
\* left as they are.
C27_EnqueueIffAdmittedAndNew ==
    [][ (pc = "extract" /\ log' = "extracted") =>
            /\ Len(toVisit') >= Len(toVisit)
            /\ SubSeq(toVisit', 1, Len(toVisit)) = toVisit
            /\ \A l \in ExtractedLinks :
                   ([url |-> l, depth |-> cur.depth + 1] \in AddedItems)
                       <=> (l \notin visited /\ AdmitRef(l) = "commit")
            /\ \A it \in AddedItems :
                   it.url \in ExtractedLinks /\ it.depth = cur.depth + 1
            /\ visited' = visited
            /\ discovered' = discovered ]_vars

\* of the links of one page one was visited already, one was rejected by the
\* filter and one was put in the frontier
C27_Witness ==
    /\ pc = "loop"
    /\ log = "extracted"
    /\ \E l \in ExtractedLinks : l \in visited
    /\ \E l \in ExtractedLinks : l \notin visited /\ AdmitRef(l) # "commit"
    /\ \E i \in 1..Len(toVisit) :
           toVisit[i].url \in ExtractedLinks /\ toVisit[i].depth = cur.depth + 1

\* C28: the item being navigated, filled or extracted never lies deeper than
\* maxDepth, no navigation was made for a deeper item, and with maxDepth >= 0
\* every item in the frontier, and the item last taken from it, has a depth of
\* at most maxDepth.
C28_DepthBounded ==
    /\ pc \in {"goto", "form", "extract"} => cur.depth <= options.maxDepth
    /\ \A i \in 1..Len(navLog) : navLog[i].depth <= options.maxDepth
    /\ options.maxDepth >= 0 =>
          /\ \A i \in 1..Len(toVisit) : toVisit[i].depth <= options.maxDepth
          /\ cur.depth <= options.maxDepth

\* links of a page one level above maxDepth wait in the frontier at maxDepth
C28_Witness ==
    /\ options.maxDepth >= 2
    /\ log = "extracted"
    /\ cur.depth = options.maxDepth - 1
    /\ \E i \in 1..Len(toVisit) : toVisit[i].depth = options.maxDepth

\* C29: every key in visited is a fixed point of normalizeUrl: normalizing it
\* again returns the same string.
C29_VisitedKeysFixedPoints ==
    \A k \in visited : normalizeUrl(k) = k

InProgress == pc \in {"goto", "form", "extract"}

\* C30: one frontier item is in progress at a time: an item is dequeued only
\* between items, and while the dequeued item is navigated, filled or
\* extracted it stays the current item and nothing is dequeued; its steps come
\* in the order navigate, form handling, link extraction: the browser is
\* navigated only in the first step and only to the current item, the form
\* step follows a navigation that succeeded, after the seeding the frontier
\* grows only in the extraction step, and the loop goes on after the
\* extraction or a failure.
C30_OneItemAtATime ==
    [][ /\ (cur' # cur \/ Len(toVisit') < Len(toVisit)) => (pc = "loop" /\ ~InProgress)
        /\ InProgress => (cur' = cur /\ visited' = visited /\ discovered' = discovered)
        /\ navLog' # navLog =>
              /\ pc = "goto"
              /\ navLog' = Append(navLog, navLog'[Len(navLog')])
              /\ navLog'[Len(navLog')].url = cur.url
        /\ pc = "goto" =>
              /\ navLog' # navLog
              /\ pc' = IF navLog'[Len(navLog')].ok THEN "form"
                       ELSE IF navAttempt' < Len(WaitUntil) THEN "goto" ELSE "loop"
        /\ pc = "form" => (pc' \in {"extract", "loop"} /\ toVisit' = toVisit)
        /\ (pc = "form" /\ pc' = "loop") => log' = "error"
        /\ pc = "extract" => (pc' = "loop" /\ pageUrl' = pageUrl)
        /\ Len(toVisit') > Len(toVisit) => pc \in {"seed", "extract"}
        /\ (pc' = "form" /\ pc # "form") => (pc = "goto" /\ pageUrl' = UrlToString(ParseUrl(cur.url)))
        /\ (pc' = "extract" /\ pc # "extract") => pc = "form" ]_vars

\* a second item went through navigation, form submission and extraction
\* after the first one was finished
C30_Witness ==
    /\ pc = "loop"
    /\ log = "extracted"
    /\ formUrls # {}
    /\ Len(navLog) >= 2
    /\ navLog[Len(navLog)].url = cur.url
    /\ navLog[1].url # cur.url

\* the references of the page the browser is on, each resolved against the
\* location of that page and normalized
ResolvedOnPage ==
    LET raws == Anchors(site, pageUrl) IN
    { normalizeUrl(AnchorHref(raws[i], pageUrl)) : i \in 1..Len(raws) }

\* the links extractLinks makes of the anchors and [href] elements of the page
\* the browser is on
ExtractedAnchorLinks ==
    LET raws == Anchors(site, pageUrl)
        links == ResolveLinks(AnchorHrefs(raws, pageUrl) \o AttrHrefs(raws), cur.url)
    IN  { links[i] : i \in 1..Len(links) } \cap ExtractedLinks

\* C31: every link extracted from an anchor of a page is a reference of that
\* page resolved against the URL the browser is on when the extraction runs,
\* also after a form submission has moved the browser to another URL.
C31_ResolvedAgainstPageUrl ==
    pc = "extract" => \A l \in ExtractedAnchorLinks : l \in ResolvedOnPage

IsProtocolRelative(r) == Len(r) >= 3 /\ r[1] = "/" /\ r[2] = "/" /\ r[3] # "/"

SeqSet(seq) == { seq[i] : i \in 1..Len(seq) }

\* the links extractLinks makes of one anchor reference and of one 'to' or
\* data-* reference of the page the browser is on
LinksOfAnchor(r) ==
    SeqSet(ResolveLinks(AnchorHrefs(<<r>>, pageUrl) \o AttrHrefs(<<r>>), cur.url))

LinksOfAttr(r) == SeqSet(ResolveLinks(AttrUrls(<<r>>, cur.url), cur.url))

\* the page's scheme followed by the reference, normalized
SchemeThenRef(r) == normalizeUrl(<<ParseUrl(pageUrl).protocol>> \o r)

\* C32: a protocol-relative reference (//host/path) of the page, found in an
\* anchor, a 'to' attribute or a data-* attribute, becomes the page's scheme
\* followed by the reference, and with sameDomainOnly no link made of a
\* reference to another host is put in the frontier.
C32_ProtocolRelativeKeepsHost ==
    /\ pc = "extract" =>
          /\ \A r \in SeqSet(Anchors(site, pageUrl)) :
                 IsProtocolRelative(r) => LinksOfAnchor(r) = {SchemeThenRef(r)}
          /\ \A r \in SeqSet(ToAttrs(site, pageUrl) \o DataAttrs(site, pageUrl)) :
                 IsProtocolRelative(r) => LinksOfAttr(r) = {SchemeThenRef(r)}
    /\ (pc = "loop" /\ log = "extracted" /\ options.sameDomainOnly) =>
          \A r \in SeqSet(Anchors(site, pageUrl) \o ToAttrs(site, pageUrl)
                          \o DataAttrs(site, pageUrl)) :
              (IsProtocolRelative(r) /\ r[3] # ParseUrl(startUrl).hostname) =>
                  \A i \in 1..Len(toVisit) :
                      toVisit[i].url \notin (LinksOfAnchor(r) \cup LinksOfAttr(r))

\* the fields of the list that have an element of a tag autoFillForm acts on
Fillable(k) ==
    /\ Query(form.page, form.fieldsToFill[k].selector) # 0
    /\ form.page.elements[Query(form.page, form.fieldsToFill[k].selector)].tag
           \in {"input", "textarea", "select"}

ActedOn(k) == \E a \in 1..Len(form.actions) : form.actions[a].field = k

\* C33: a field whose element is missing or whose action fails gets no
\* action, every other field before the loop position does, and when the
\* call has ended with a non-empty list the loop went through the whole list
\* and submitForm was called.
C33_FailedFieldSkipped ==
    /\ form.pc \in {"fill", "done"} =>
          \A k \in 1..Len(form.fieldsToFill) :
              ActedOn(k) <=> (k < form.i /\ k \notin form.failed /\ Fillable(k))
    /\ (form.pc = "done" /\ Len(form.fieldsToFill) > 0) =>
          /\ form.i = Len(form.fieldsToFill) + 1
          /\ form.submitted # "none"

\* the call ended after one field failed, a field without element was passed
\* over, a later field was filled and a submission was fired
C33_Witness ==
    /\ form.pc = "done"
    /\ form.submitted = "true"
    /\ \E k \in form.failed : \E j \in (k + 1)..Len(form.fieldsToFill) : ActedOn(j)
    /\ \E k \in 1..Len(form.fieldsToFill) :
           Query(form.page, form.fieldsToFill[k].selector) = 0

\* the entry the step pushed, and whether the step fired a submission
Pushed == Len(cap'.results) = Len(cap.results) + 1
LastResult == cap'.results[Len(cap'.results)]
SubmissionFired == cap'.submitted # cap.submitted

C35_VisitedIsDiscovered ==
    [][ /\ visited \subseteq visited'
        /\ Len(discovered') >= Len(discovered)
        /\ SubSeq(discovered', 1, Len(discovered)) = discovered
        /\ visited' = SeqSet(discovered')
        /\ Cardinality(visited') = Len(discovered')
        /\ result'.returned => result'.skipped = 0 ]_vars

\* a returned run of at least three pages in which a submitted form moved the
\* page to another URL
C35_Witness ==
    /\ result.returned
    /\ result.skipped = 0
    /\ Len(discovered) >= 3
    /\ formUrls # {}

\* C36: no two entries of the results of captureScreenshots have URLs with
\* the same normalized key.
C36_OneResultPerKey ==
    cap # << >> =>
        \A i, j \in 1..Len(cap.results) :
            i # j => normalizeUrl(cap.results[i].url) # normalizeUrl(cap.results[j].url)

\* the attempts of page.goto made for the URL at index k
AttemptsOf(c, k) == { n \in 1..Len(c.navLog) : c.navLog[n].index = k }

C38_NoSubmitWithoutFields ==
    /\ ( form.pc # "start" /\ Len(form.fieldsToFill) = 0 ) =>
          /\ form.pc = "done"
          /\ form.result = "false"
          /\ form.actions = << >>
          /\ form.submitted = "none"
    /\ form.submitted # "none" => Len(form.fieldsToFill) > 0

\* an empty custom list was given for a page that has controls the generator
\* would fill and a submit trigger that could be clicked; the call is over
C38_Witness ==
    /\ form.pc = "done"
    /\ form.customFields.defined
    /\ form.fieldsToFill = << >>
    /\ generateDefaultFields(form.page) # << >>
    /\ Clickable(form.page) # {}
    /\ form.result = "false"

Clicks(actions) == SelectSeq(actions, LAMBDA a : a.op = "click")
Presses(actions) == SelectSeq(actions, LAMBDA a : a.op = "press")

\* C39: the actions of one call of submitForm hold at most one click, at most
\* one key press, and a key press only when there is no click.
C39_OneSubmission ==
    ( form # << >> /\ form.submitted # "none" ) =>
        /\ Len(Clicks(form.actions)) <= 1
        /\ Len(Presses(form.actions)) <= 1
        /\ Presses(form.actions) # << >> => Clicks(form.actions) = << >>

=============================================================================
